---- MODULE Spec2Model ----
(***************************************************************************)
(* AssetManager of flatbox_assets (crates/assets/src/manager.rs): a        *)
(* SlotMap<AssetHandle, Arc<RwLock<Box<dyn Asset>>>> with insert, get,     *)
(* get_mut and remove.  The slot map (slots, versions, free list), the     *)
(* per-cell parking_lot RwLock state and the guards that callers hold are  *)
(* state; every method is one action.  Further: Resources                  *)
(* (crates/assets/src/resources.rs), the AssetSerializer strategies        *)
(* (crates/assets/src/serializer.rs) and the archive written and read by   *)
(* impl_save_load! (crates/assets/src/save_load.rs), each under a          *)
(* specification of its own over the same state.                           *)
(***************************************************************************)
EXTENDS Naturals, Sequences, FiniteSets

(* ------------------------------ bounds -------------------------------- *)

\* slots the map may grow to
MaxSlots == 2
\* times one slot may be reused after its first occupant
MaxReuse == 1
\* read guards checked out of one cell at a time
MaxReaders == 2
\* calls and guard events in one run
MaxSteps == 5
\* elements of a value handed to a serializer
MaxLen == 2
\* entity ids of the World
MaxEntities == 2
\* entries an archive file may hold
MaxEntries == 3
MaxMeshes == 2
MaxSystems == 4
MaxElapsed == 6

(* --------------------------- program constants ------------------------ *)

\* slotmap keeps a slot's version in a u32: odd while the slot is occupied, even
\* while it is vacant.  It is written here as version = 2 * gen + occupied, so
\* that the 31-bit generation fits TLC's 32-bit integers; MaxGen is the
\* largest generation, after which wrapping_add starts again at 0.
MaxGen == 2147483647

\* concrete asset types an object can have (the downcast targets A of get::<A>)
Types == {"u32", "String"}

\* payloads of the asset values inserted and written: no method looks at the
\* payload, so two values are enough to tell one object from another
Vals == {0, 1}

\* AssetHandle(KeyData): slot index and version
\* (a key's version is always odd: version = 2 * gen + 1)
Handles == [idx : 1 .. MaxSlots, gen : 0 .. MaxReuse]

NoHandle == [idx |-> 0, gen |-> 0]

\* an empty cell position (the slot is vacant)
NoCell == [ty |-> "-", val |-> 0, readers |-> 0, writers |-> 0]

\* Arc::new(RwLock::new(Box::new(asset))): a fresh, unlocked cell
NewCell(ty, val) == [ty |-> ty, val |-> val, readers |-> 0, writers |-> 0]

VARIABLES
    slots,        \* SlotMap.slots (without the sentinel at index 0)
    free_head,    \* SlotMap.free_head
    guards,       \* per slot: the guards callers hold that still borrow the manager
    last,         \* the most recent call and what it returned
    removed,      \* a handle remove was called with (any one of them), or NoHandle
    removedLive,  \* whether that call took an entry out of the map
    steps         \* calls and guard events so far

VARIABLES
    resources,    \* Resources.res: per resource type its cell, or NoRes
    res_guards,   \* per resource type: the guards callers hold that borrow Resources
    res_last      \* the most recent call on Resources and what it returned

VARIABLES
    world,        \* the World: per entity id the entity stored there, or NoEntity
    package,      \* the archive file at the path save writes and load reads
    file          \* the file at the path the serializers write and read

VARIABLES
    save_pc,      \* where a SaveLoad::save call stands
    buf,          \* its local buf: the serialized world
    tar           \* its tar::Builder: the entries appended so far

save_vars == <<save_pc, buf, tar>>

VARIABLES
    meshes,       \* the Mesh objects of the program, in the order they were made
    mesh_doc,     \* the serialized form of a Mesh most recently written, or NoDoc
    mesh_last     \* the most recent call on a Mesh and what it returned

mesh_vars == <<meshes, mesh_doc, mesh_last>>

VARIABLES
    storage,      \* Events.storage: per event type its handler, or NoHandler
    schedules,    \* Flatbox.schedules: per stage the systems added, in order
    extensions,   \* Flatbox.extensions: the TypeIds recorded
    running,      \* whether Flatbox::run has been entered
    eng_last      \* the most recent call on the engine and what it returned

engine_vars == <<storage, schedules, extensions, running, eng_last>>

VARIABLES
    context,      \* Flatbox.context: the fields of Context the loop reads and writes
    emitted,      \* the ContextEvents the most recent handler called the runner with
    executed      \* the schedules Flatbox executed during the most recent handler

context_vars == <<context, emitted, executed>>

VARIABLES
    commands_history, \* Renderer.commands_history.cache: the names kept, oldest first
    issued            \* every command Renderer::execute was called with, in call order

render_vars == <<commands_history, issued>>

VARIABLES
    ecs,          \* the entities of the World scenes are spawned into, in spawn order
    spawned,      \* how many entities that World has spawned since it was made
    scene_last    \* the most recent call on that World and the scene it was given

scene_vars == <<ecs, spawned, scene_last>>

\* the state of the engine outside assets, resources, world and files
late_vars == <<save_vars, mesh_vars, engine_vars, context_vars, render_vars,
               scene_vars>>

asset_vars == <<slots, free_head, guards, last, removed, removedLive, steps>>

res_vars == <<resources, res_guards, res_last>>

\* the state outside the AssetManager, which its methods do not touch
outside_assets == <<res_vars, world, package, file, late_vars>>

\* the state outside Resources
outside_resources == <<asset_vars, world, package, file, late_vars>>

\* the state outside the meshes
outside_meshes == <<asset_vars, res_vars, world, package, file, save_vars,
                    engine_vars, context_vars, render_vars, scene_vars>>

\* the state outside the renderer and the meshes it draws
outside_render == <<asset_vars, res_vars, world, package, file, save_vars,
                    engine_vars, context_vars, scene_vars>>

\* the state outside the World scenes are spawned into
outside_scene == <<asset_vars, res_vars, world, package, file, save_vars,
                   mesh_vars, engine_vars, context_vars, render_vars>>

\* the state outside the engine's builder and loop
outside_loop == <<asset_vars, res_vars, world, package, file, save_vars,
                  mesh_vars, render_vars, scene_vars>>

\* the state outside events, schedules and extensions
outside_engine == <<outside_loop, context_vars>>

vars == <<asset_vars, res_vars, world, package, file, late_vars>>

(* ------------------------------ results ------------------------------- *)

Res(kind, ty, val, h) == [kind |-> kind, ty |-> ty, val |-> val, h |-> h]

Ok(val) == Res("Ok", "-", val, NoHandle)
InvalidHandle == Res("InvalidHandle", "-", 0, NoHandle)
AssetBlocked == Res("AssetBlocked", "-", 0, NoHandle)
\* WrongAssetType { asset_type: type_name::<A>() }
WrongAssetType(A) == Res("WrongAssetType", A, 0, NoHandle)
Some(val) == Res("Some", "-", val, NoHandle)
None == Res("None", "-", 0, NoHandle)
Panic == Res("Panic", "-", 0, NoHandle)
Unit == Res("()", "-", 0, NoHandle)
Returned(h) == Res("Handle", "-", 0, h)

Call(op, h, ty, val, res, fresh) ==
    [op |-> op, h |-> h, ty |-> ty, val |-> val, res |-> res, fresh |-> fresh]

(* ------------------------------ slot map ------------------------------ *)

\* slot.version.wrapping_add(1) on an occupied (odd) version: the slot becomes
\* vacant and its generation advances, wrapping after MaxGen
NextGenStuck(g) == g
NextGen(g) == IF g = MaxGen THEN 0 ELSE g + 1

\* SlotMap::get / contains_key: the slot exists and carries the key's version
ContainsKeyIdxOnly(h) == h.idx \in 1 .. Len(slots) /\ slots[h.idx].occupied
ContainsKey(h) ==
    /\ h.idx \in 1 .. Len(slots)
    /\ slots[h.idx].occupied
    /\ slots[h.idx].gen = h.gen

\* the key SlotMap::insert hands out next: the head of the free list with
\* slot.version | 1, or a new slot with version 1
NextKeyNoVersion ==
    IF free_head <= Len(slots)
    THEN [idx |-> free_head, gen |-> 0]
    ELSE [idx |-> Len(slots) + 1, gen |-> 0]
NextKey ==
    IF free_head <= Len(slots)
    THEN [idx |-> free_head, gen |-> slots[free_head].gen]
    ELSE [idx |-> Len(slots) + 1, gen |-> 0]

Slot(gen, occupied, next_free, cell) ==
    [gen |-> gen, occupied |-> occupied, next_free |-> next_free, cell |-> cell]

SlotsAfterInsert(cell) ==
    IF free_head <= Len(slots)
    THEN [slots EXCEPT ![free_head] = Slot(slots[free_head].gen, TRUE, 0, cell)]
    ELSE Append(slots, Slot(0, TRUE, 0, cell))

FreeHeadStuck == free_head
FreeHeadAfterInsert ==
    IF free_head <= Len(slots) THEN slots[free_head].next_free ELSE Len(slots) + 2

\* SlotMap::remove_from_slot: the slot joins the free list and its version advances
SlotsAfterSwapRemove(h) ==
    [slots EXCEPT ![h.idx] = slots[Len(slots)],
                  ![Len(slots)] = Slot(NextGen(slots[Len(slots)].gen), FALSE, free_head, NoCell)]
SlotsAfterRemove(h) ==
    [slots EXCEPT ![h.idx] =
        Slot(NextGen(slots[h.idx].gen), FALSE, free_head, NoCell)]

(* ------------------------------ cell lock ----------------------------- *)

\* RwLock::try_read: fails while a writer holds the lock
TryReadIgnoresWriter(cell) == TRUE
TryRead(cell) == cell.writers = 0

\* RwLock::try_write: fails while anyone holds the lock
TryWriteIgnoresReaders(cell) == cell.writers = 0
TryWrite(cell) == cell.writers = 0 /\ cell.readers = 0

\* as_any().downcast_ref::<A>() / downcast_mut::<A>() is Some
DowncastAny(cell, A) == TRUE
Downcast(cell, A) == cell.ty = A

(* ------------------------------ borrows ------------------------------- *)

NoGuards == [i \in 1 .. MaxSlots |-> [r |-> 0, w |-> 0]]

\* a method taking &self can be called while only guards got through &self live
SharedBorrowOk == \A i \in 1 .. MaxSlots : guards[i].w = 0

\* a save call under way holds &World and &AssetManager until it returns
SaveRunning == save_pc \in {"Empty", "Writing"}

\* a method taking &mut self can be called only while no guard borrows the
\* manager and no call holds a reference to it
ExclusiveBorrowOk ==
    /\ \A i \in 1 .. MaxSlots : guards[i].w = 0 /\ guards[i].r = 0
    /\ ~SaveRunning

(* ------------------------------ Resources ----------------------------- *)

\* resource types R (the TypeId keys of Resources.res)
ResTypes == {"Config", "Time"}

\* no entry under a TypeId
NoRes == [present |-> FALSE, val |-> 0, readers |-> 0, writers |-> 0]

\* Arc::new(RwLock::new(resource)): a fresh, unlocked cell
NewRes(val) == [present |-> TRUE, val |-> val, readers |-> 0, writers |-> 0]

NoResGuards == [R \in ResTypes |-> [r |-> 0, w |-> 0]]

ResCall(op, R, val, res) == [op |-> op, ty |-> R, val |-> val, res |-> res]

(* ----------------------------- serializers ---------------------------- *)

\* the AssetSerializer strategies
Strategies ==
    {"StringSerializer", "BinarySerializer(None)",
     "BinarySerializer(Some(CompressionLevel(0)))",
     "BinarySerializer(Some(CompressionLevel(4)))"}

\* self.0.is_some() / if let Some(level) = self.0
Compressed(st) ==
    st \in {"BinarySerializer(Some(CompressionLevel(0)))",
            "BinarySerializer(Some(CompressionLevel(4)))"}

\* the values saved: sequences (Vec<u8>) of at most MaxLen elements
CodecValues == UNION {[1 .. n -> Vals] : n \in 0 .. MaxLen}

\* a file is a sequence of bytes; the bytes RON text is made of, in ASCII
OpenBracket == 91
CloseBracket == 93
Comma == 44
Newline == 10
Space == 32
Digit0 == 48
Digit9 == 57

\* the first byte of the LZ4 frame magic number 04 22 4D 18, and the end mark
Lz4Magic == 4
Lz4EndMark == 0

NoFile == [exists |-> FALSE, bytes |-> << >>]

FileOf(bytes) == [exists |-> TRUE, bytes |-> bytes]

CodecOk(v) == Res("Ok", "-", v, NoHandle)
CodecErr(kind) == Res(kind, "-", << >>, NoHandle)

(* -------------------------------- engine ------------------------------ *)

\* event types E (the keys TypeId::of::<EventHandler<E>>() of Events.storage)
EventTypes == {"AppExit", "WindowEvent"}

\* EventHandler<E> { events: Option<E> }
NoHandler == [present |-> FALSE, events |-> None]
HandlerOf(events) == [present |-> TRUE, events |-> events]

\* Schedules::from([("setup", ..), ("update", ..), ("render", ..)])
Stages == {"setup", "update", "render"}

\* the extension types of extension.rs
ExtensionTypes == {"BaseRenderExtension", "RenderMaterialExtension"}

\* what error! writes to the log
Logged == Res("error!", "-", 0, NoHandle)

\* WindowBuilder.updates_per_second and max_frame_time, in ticks of the
\* clock: the length of one update step and the longest frame counted
FixedTimeStep == 2
MaxFrameTime == 5

\* Context::new
NewContext ==
    [event_loop |-> "Present", exit_next_iteration |-> FALSE,
     window_occluded |-> FALSE, accumulated_time |-> 0]

\* the window events Context::run tells apart
WindowEvents ==
    {"CloseRequested", "Resized", "Occluded(true)", "Occluded(false)", "Focused"}

EngCallVal(op, ty, val, res) == [op |-> op, ty |-> ty, val |-> val, res |-> res]

EngCall(op, ty, res) == EngCallVal(op, ty, 0, res)

(* -------------------------------- meshes ------------------------------ *)

\* struct Mesh: vertex_data, index_data and primitives taken as one value
MeshOf(data, prepared, vertex_buffer, index_buffer) ==
    [data |-> data, prepared |-> prepared,
     vertex_buffer |-> vertex_buffer, index_buffer |-> index_buffer]

NoDoc == [some |-> FALSE, data |-> 0]

MeshCall(op, i, res) == [op |-> op, i |-> i, res |-> res]

\* a call on the World: the entities it was given and how many the World
\* had spawned before
SceneCall(op, entities, before) ==
    [op |-> op, entities |-> entities, before |-> before]

(* ------------------------------- archive ------------------------------ *)

EntityIds == 1 .. MaxEntities

\* no entity under the id; an entity without components; an entity carrying
\* MyComponent(val)
NoEntity == [alive |-> FALSE, has |-> FALSE, val |-> 0]
Bare == [alive |-> TRUE, has |-> FALSE, val |-> 0]
Spawned(val) == [alive |-> TRUE, has |-> TRUE, val |-> val]

\* World::new()
EmptyWorld == [e \in EntityIds |-> NoEntity]

\* the worlds built from the allow-listed component type
Worlds == [EntityIds -> {NoEntity} \cup {Spawned(val) : val \in Vals}]

\* impl_save_load! { loader: SaveLoadImpl, components: [MyComponent] }
AllowList == {"MyComponent"}

\* one entry of the tar archive: its header (path) and its bytes.  The bytes
\* are kept as what they parse to: whether a RON deserializer can be built
\* from them at all, and the document they hold
Entry(name, payload) == [name |-> name, payload |-> payload]

Payload(ron, kind, wdoc, adoc) ==
    [ron |-> ron, kind |-> kind, world |-> wdoc, assets |-> adoc]

\* bytes that are no world and no asset document
Junk(ron) == Payload(ron, "junk", << >>, << >>)

\* entries under names load does not match, as another program may add them
ForeignEntries ==
    {Entry("physics.ron", Junk(TRUE)), Entry("physics.ron", Junk(FALSE))}

NoPackage == [exists |-> FALSE, entries |-> << >>]

\* Result<(), AssetError> / Result<(World, AssetManager), AssetError>; a
\* panic of Option::unwrap is a result of its own
ArchiveRes(kind) == Res(kind, "-", 0, NoHandle)

(* ------------------------------ methods ------------------------------- *)

InitWorldless ==
    /\ context = NewContext
    /\ emitted = << >>
    /\ executed = << >>
    /\ commands_history = << >>
    /\ issued = << >>
    /\ ecs = << >>
    /\ spawned = 0
    /\ scene_last = SceneCall("new", << >>, 0)
    /\ storage = [E \in EventTypes |-> NoHandler]
    /\ schedules = [st \in Stages |-> << >>]
    /\ extensions = << >>
    /\ running = FALSE
    /\ eng_last = EngCall("init", "-", Unit)
    /\ meshes = << >>
    /\ mesh_doc = NoDoc
    /\ mesh_last = MeshCall("new", 0, "()")
    /\ save_pc = "Idle"
    /\ buf = << >>
    /\ tar = << >>
    /\ slots = << >>
    /\ free_head = 1
    /\ guards = NoGuards
    /\ last = Call("new", NoHandle, "-", 0, Unit, FALSE)
    /\ removed = NoHandle
    /\ removedLive = FALSE
    /\ steps = 0
    /\ resources = [R \in ResTypes |-> NoRes]
    /\ res_guards = NoResGuards
    /\ res_last = ResCall("new", "-", 0, Unit)
    /\ package = NoPackage
    /\ file = NoFile

\* Flatbox::init
Init == InitWorldless /\ world = EmptyWorld

Tick == steps < MaxSteps /\ steps' = steps + 1

\* AssetManager::insert
insert(ty, val) ==
    /\ Tick
    /\ ExclusiveBorrowOk
    /\ IF free_head <= Len(slots)
       THEN slots[free_head].gen <= MaxReuse
       ELSE Len(slots) < MaxSlots
    /\ slots' = SlotsAfterInsert(NewCell(ty, val))
    /\ free_head' = FreeHeadAfterInsert
    /\ last' = Call("insert", NoHandle, ty, val, Returned(NextKey), FALSE)
    /\ UNCHANGED <<guards, removed, removedLive>>
    /\ UNCHANGED outside_assets

\* what get::<A>(handle) returns
GetResultTypeFirst(h, A) ==
    IF ~ContainsKey(h) THEN InvalidHandle
    ELSE IF ~Downcast(slots[h.idx].cell, A) THEN WrongAssetType(A)
    ELSE IF ~TryRead(slots[h.idx].cell) THEN AssetBlocked
    ELSE Ok(slots[h.idx].cell.val)
GetResult(h, A) ==
    IF ~ContainsKey(h) THEN InvalidHandle
    ELSE IF ~TryRead(slots[h.idx].cell) THEN AssetBlocked
    ELSE IF ~Downcast(slots[h.idx].cell, A) THEN WrongAssetType(A)
    ELSE Ok(slots[h.idx].cell.val)

\* the read lock after get: held by the returned guard on Ok; on a failed
\* try_map the guard comes back in the Err and map_err drops it
ReadersAfterGetLeak(cell, res) ==
    IF res.kind \in {"Ok", "WrongAssetType"} THEN cell.readers + 1 ELSE cell.readers
ReadersAfterGet(cell, res) ==
    IF res.kind = "Ok" THEN cell.readers + 1 ELSE cell.readers

\* whether this get directly follows the insert that returned its handle
FollowsInsert(h, A) ==
    last.op = "insert" /\ last.res.h = h /\ last.ty = A

\* AssetManager::get
get(h, A) ==
    /\ Tick
    /\ SharedBorrowOk
    /\ LET res == GetResult(h, A) IN
       /\ res.kind = "Ok" => slots[h.idx].cell.readers < MaxReaders
       /\ slots' = IF ContainsKey(h)
                   THEN [slots EXCEPT ![h.idx].cell.readers =
                            ReadersAfterGet(slots[h.idx].cell, res)]
                   ELSE slots
       /\ guards' = IF res.kind = "Ok"
                    THEN [guards EXCEPT ![h.idx].r = @ + 1]
                    ELSE guards
       /\ last' = Call("get", h, A, 0, res, FollowsInsert(h, A))
    /\ UNCHANGED <<free_head, removed, removedLive>>
    /\ UNCHANGED outside_assets

\* what get_mut::<A>(handle) returns
GetMutResult(h, A) ==
    IF ~ContainsKey(h) THEN InvalidHandle
    ELSE IF ~TryWrite(slots[h.idx].cell) THEN AssetBlocked
    ELSE IF ~Downcast(slots[h.idx].cell, A) THEN WrongAssetType(A)
    ELSE Ok(slots[h.idx].cell.val)

\* the write lock after get_mut, as ReadersAfterGet
WritersAfterGetMut(cell, res) ==
    IF res.kind = "Ok" THEN cell.writers + 1 ELSE cell.writers

\* AssetManager::get_mut
get_mut(h, A) ==
    /\ Tick
    /\ ExclusiveBorrowOk
    /\ LET res == GetMutResult(h, A) IN
       /\ slots' = IF ContainsKey(h)
                   THEN [slots EXCEPT ![h.idx].cell.writers =
                            WritersAfterGetMut(slots[h.idx].cell, res)]
                   ELSE slots
       /\ guards' = IF res.kind = "Ok"
                    THEN [guards EXCEPT ![h.idx].w = @ + 1]
                    ELSE guards
       /\ last' = Call("get_mut", h, A, 0, res, FollowsInsert(h, A))
    /\ UNCHANGED <<free_head, removed, removedLive>>
    /\ UNCHANGED outside_assets

\* std::mem::zeroed::<A>() is a valid value of A
ZeroValid(A) == A = "u32"

\* what remove::<A>(handle) can return.  cache.remove(handle) comes first;
\* Arc::into_inner succeeds because the map holds the only Arc of a cell;
\* RwLock::into_inner does not look at the lock state.  The placeholder
\* `unsafe { std::mem::zeroed() }` is undefined behaviour for an A whose
\* all-zero bit pattern is invalid: the call then either panics (the
\* zero-initialization check) or goes on and returns the value.
RemoveResults(h, A) ==
    IF ~ContainsKey(h) THEN {None}
    ELSE IF ~Downcast(slots[h.idx].cell, A) THEN {None}
    ELSE IF ZeroValid(A) THEN {Some(slots[h.idx].cell.val)}
    ELSE {Some(slots[h.idx].cell.val), Panic}

\* AssetManager::remove
remove(h, A) ==
    /\ Tick
    /\ ExclusiveBorrowOk
    /\ \E res \in RemoveResults(h, A) :
          last' = Call("remove", h, A, 0, res, FALSE)
    /\ slots' = IF ContainsKey(h) THEN SlotsAfterRemove(h) ELSE slots
    /\ free_head' = IF ContainsKey(h) THEN h.idx ELSE free_head
    /\ \/ removed' = h /\ removedLive' = ContainsKey(h)
       \/ removed # NoHandle /\ removed # h /\ UNCHANGED <<removed, removedLive>>
    /\ UNCHANGED guards
    /\ UNCHANGED outside_assets

(* ------------------------------ guards -------------------------------- *)

\* a MappedRwLockReadGuard goes out of scope: unlock_shared
drop_read(i) ==
    /\ Tick
    /\ guards[i].r > 0
    /\ guards' = [guards EXCEPT ![i].r = @ - 1]
    /\ slots' = [slots EXCEPT ![i].cell.readers = @ - 1]
    /\ last' = Call("drop", NoHandle, "-", 0, Unit, FALSE)
    /\ UNCHANGED <<free_head, removed, removedLive>>
    /\ UNCHANGED outside_assets

\* a MappedRwLockWriteGuard goes out of scope: unlock_exclusive
drop_write(i) ==
    /\ Tick
    /\ guards[i].w > 0
    /\ guards' = [guards EXCEPT ![i].w = @ - 1]
    /\ slots' = [slots EXCEPT ![i].cell.writers = @ - 1]
    /\ last' = Call("drop", NoHandle, "-", 0, Unit, FALSE)
    /\ UNCHANGED <<free_head, removed, removedLive>>
    /\ UNCHANGED outside_assets

\* std::mem::forget(guard): the borrow of the manager ends, the guard's Drop
\* never runs and the cell's lock stays held
forget_read(i) ==
    /\ Tick
    /\ guards[i].r > 0
    /\ guards' = [guards EXCEPT ![i].r = @ - 1]
    /\ last' = Call("forget", NoHandle, "-", 0, Unit, FALSE)
    /\ UNCHANGED <<slots, free_head, removed, removedLive>>
    /\ UNCHANGED outside_assets

forget_write(i) ==
    /\ Tick
    /\ guards[i].w > 0
    /\ guards' = [guards EXCEPT ![i].w = @ - 1]
    /\ last' = Call("forget", NoHandle, "-", 0, Unit, FALSE)
    /\ UNCHANGED <<slots, free_head, removed, removedLive>>
    /\ UNCHANGED outside_assets

\* *guard = value through the MappedRwLockWriteGuard<A> (DerefMut)
write(i, val) ==
    /\ Tick
    /\ guards[i].w > 0
    /\ slots' = [slots EXCEPT ![i].cell.val = val]
    /\ last' = Call("write", NoHandle, "-", val, Unit, FALSE)
    /\ UNCHANGED <<free_head, guards, removed, removedLive>>
    /\ UNCHANGED outside_assets

Next ==
    \/ \E ty \in Types, val \in Vals : insert(ty, val)
    \/ \E h \in Handles, A \in Types : get(h, A)
    \/ \E h \in Handles, A \in Types : get_mut(h, A)
    \/ \E h \in Handles, A \in Types : remove(h, A)
    \/ \E i \in 1 .. MaxSlots : drop_read(i)
    \/ \E i \in 1 .. MaxSlots : drop_write(i)
    \/ \E i \in 1 .. MaxSlots : forget_read(i)
    \/ \E i \in 1 .. MaxSlots : forget_write(i)
    \/ \E i \in 1 .. MaxSlots, val \in Vals : write(i, val)

Spec == Init /\ [][Next]_vars

(* ------------------------- Resources: methods ------------------------- *)

\* add_resource and remove_resource take &mut self: no guard may borrow Resources
ResExclusiveBorrowOk ==
    \A R \in ResTypes : res_guards[R].r = 0 /\ res_guards[R].w = 0

\* HashMap::insert: the entry under TypeId::of::<R>() becomes the new cell,
\* whether or not there was one
EntryAfterAdd(old, val) == NewRes(val)

\* Resources::add_resource
add_resource(R, val) ==
    /\ ResExclusiveBorrowOk
    /\ resources' = [resources EXCEPT ![R] = EntryAfterAdd(resources[R], val)]
    /\ res_last' = ResCall("add_resource", R, val, Unit)
    /\ UNCHANGED res_guards
    /\ UNCHANGED outside_resources

\* what get_resource::<R>() returns: the downcast to R cannot fail, the entry
\* under TypeId::of::<R>() holds an R
GetResourceResult(R) ==
    IF ~resources[R].present THEN None
    ELSE IF ~TryRead(resources[R]) THEN None
    ELSE Some(resources[R].val)

\* Resources::get_resource (&self)
get_resource(R) ==
    /\ LET res == GetResourceResult(R) IN
       /\ res.kind = "Some" => resources[R].readers < MaxReaders
       /\ resources' = IF res.kind = "Some"
                       THEN [resources EXCEPT ![R].readers = @ + 1]
                       ELSE resources
       /\ res_guards' = IF res.kind = "Some"
                        THEN [res_guards EXCEPT ![R].r = @ + 1]
                        ELSE res_guards
       /\ res_last' = ResCall("get_resource", R, 0, res)
    /\ UNCHANGED outside_resources

\* what get_resource_mut::<R>() returns
GetResourceMutAnyTime(R) ==
    IF ~resources[R].present THEN None ELSE Some(resources[R].val)
GetResourceMutResult(R) ==
    IF ~resources[R].present THEN None
    ELSE IF ~TryWrite(resources[R]) THEN None
    ELSE Some(resources[R].val)

\* Resources::get_resource_mut (&self)
get_resource_mut(R) ==
    /\ LET res == GetResourceMutResult(R) IN
       /\ resources' = IF res.kind = "Some"
                       THEN [resources EXCEPT ![R].writers = @ + 1]
                       ELSE resources
       /\ res_guards' = IF res.kind = "Some"
                        THEN [res_guards EXCEPT ![R].w = @ + 1]
                        ELSE res_guards
       /\ res_last' = ResCall("get_resource_mut", R, 0, res)
    /\ UNCHANGED outside_resources

\* Resources::remove_resource
remove_resource(R) ==
    /\ ResExclusiveBorrowOk
    /\ resources' = [resources EXCEPT ![R] = NoRes]
    /\ res_last' = ResCall("remove_resource", R, 0, Unit)
    /\ UNCHANGED res_guards
    /\ UNCHANGED outside_resources

\* a MappedRwLockReadGuard<R> goes out of scope: unlock_shared
res_drop_read(R) ==
    /\ res_guards[R].r > 0
    /\ res_guards' = [res_guards EXCEPT ![R].r = @ - 1]
    /\ resources' = [resources EXCEPT ![R].readers = @ - 1]
    /\ res_last' = ResCall("drop", R, 0, Unit)
    /\ UNCHANGED outside_resources

\* a MappedRwLockWriteGuard<R> goes out of scope: unlock_exclusive
res_drop_write(R) ==
    /\ res_guards[R].w > 0
    /\ res_guards' = [res_guards EXCEPT ![R].w = @ - 1]
    /\ resources' = [resources EXCEPT ![R].writers = @ - 1]
    /\ res_last' = ResCall("drop", R, 0, Unit)
    /\ UNCHANGED outside_resources

\* std::mem::forget(guard): the borrow of Resources ends, the lock stays held
res_forget_read(R) ==
    /\ res_guards[R].r > 0
    /\ res_guards' = [res_guards EXCEPT ![R].r = @ - 1]
    /\ res_last' = ResCall("forget", R, 0, Unit)
    /\ UNCHANGED resources
    /\ UNCHANGED outside_resources

res_forget_write(R) ==
    /\ res_guards[R].w > 0
    /\ res_guards' = [res_guards EXCEPT ![R].w = @ - 1]
    /\ res_last' = ResCall("forget", R, 0, Unit)
    /\ UNCHANGED resources
    /\ UNCHANGED outside_resources

\* *guard = value through the MappedRwLockWriteGuard<R> (DerefMut)
res_write(R, val) ==
    /\ res_guards[R].w > 0
    /\ resources' = [resources EXCEPT ![R].val = val]
    /\ res_last' = ResCall("write", R, val, Unit)
    /\ UNCHANGED res_guards
    /\ UNCHANGED outside_resources

ResNext ==
    \/ \E R \in ResTypes, val \in Vals : add_resource(R, val)
    \/ \E R \in ResTypes : get_resource(R)
    \/ \E R \in ResTypes : get_resource_mut(R)
    \/ \E R \in ResTypes : remove_resource(R)
    \/ \E R \in ResTypes : res_drop_read(R)
    \/ \E R \in ResTypes : res_drop_write(R)
    \/ \E R \in ResTypes : res_forget_read(R)
    \/ \E R \in ResTypes : res_forget_write(R)
    \/ \E R \in ResTypes, val \in Vals : res_write(R, val)

SpecResources == Init /\ [][ResNext]_vars

(* ------------------------- serializers: methods ----------------------- *)

\* ron::ser::to_string_pretty of a sequence: "[]", or one element per line,
\* each followed by a comma
RECURSIVE RonItems(_)
RonItems(v) ==
    IF Len(v) = 0 THEN << >>
    ELSE <<Space, Digit0 + Head(v), Comma, Newline>> \o RonItems(Tail(v))

ToStringPretty(v) ==
    IF Len(v) = 0 THEN <<OpenBracket, CloseBracket>>
    ELSE <<OpenBracket, Newline>> \o RonItems(v) \o <<CloseBracket>>

IsWhitespace(b) == b \in {Space, Newline}

IsDigit(b) == b \in Digit0 .. Digit9

\* ron::from_str::<Vec<u8>>: whitespace is skipped anywhere between tokens; the
\* elements are separated by commas, and a trailing comma is allowed
FromStrKeepWhitespace(bytes) ==
    IF bytes = <<OpenBracket, CloseBracket>> THEN CodecOk(<< >>)
    ELSE CodecErr("RonError")
FromStr(bytes) ==
    LET t == SelectSeq(bytes, LAMBDA b : ~IsWhitespace(b))
        m == SubSeq(t, 2, Len(t) - 1)
    IN  IF /\ Len(t) >= 2
           /\ t[1] = OpenBracket
           /\ t[Len(t)] = CloseBracket
           /\ \A i \in 1 .. Len(m) :
                 IF i % 2 = 1 THEN IsDigit(m[i]) ELSE m[i] = Comma
        THEN CodecOk([i \in 1 .. (Len(m) + 1) \div 2 |-> m[2 * i - 1] - Digit0])
        ELSE CodecErr("RonError")

\* bincode::serialize of a sequence: the length, then the elements
BincodeSerialize(v) == <<Len(v)>> \o v

\* bincode::deserialize::<Vec<u8>>: fails when the bytes end before the
\* announced elements do; bytes that follow the value are not looked at
BincodeDeserializePartial(bytes) ==
    IF Len(bytes) = 0 THEN CodecErr("BincodeError")
    ELSE CodecOk(SubSeq(bytes, 2,
            IF bytes[1] + 1 <= Len(bytes) THEN bytes[1] + 1 ELSE Len(bytes)))
BincodeDeserialize(bytes) ==
    IF Len(bytes) = 0 \/ bytes[1] > Len(bytes) - 1
    THEN CodecErr("BincodeError")
    ELSE CodecOk(SubSeq(bytes, 2, bytes[1] + 1))

\* lz4 Encoder: the frame header, one block with its size, the end mark
Lz4Encode(bytes) == <<Lz4Magic, Len(bytes)>> \o bytes \o <<Lz4EndMark>>

\* lz4 Decoder read to the end: an error on a stream that does not start with
\* the magic number; the bytes of the block as far as the stream holds them
Lz4PassThrough(bytes) == CodecOk(bytes)
Lz4Decode(bytes) ==
    IF Len(bytes) = 0 THEN CodecOk(<< >>)
    ELSE IF bytes[1] # Lz4Magic THEN CodecErr("IoError")
    ELSE IF Len(bytes) = 1 THEN CodecOk(<< >>)
    ELSE CodecOk(SubSeq(bytes, 3,
            IF 2 + bytes[2] <= Len(bytes) THEN 2 + bytes[2] ELSE Len(bytes)))

\* the bytes save writes for value v
Encode(st, v) ==
    IF st = "StringSerializer" THEN ToStringPretty(v) \o <<Newline>>
    ELSE IF Compressed(st) THEN Lz4Encode(BincodeSerialize(v))
    ELSE BincodeSerialize(v)

\* what load returns for a file holding bytes
Decode(st, bytes) ==
    IF st = "StringSerializer" THEN FromStr(bytes)
    ELSE IF Compressed(st)
         THEN LET d == Lz4Decode(bytes) IN
              IF d.kind = "Ok" THEN BincodeDeserialize(d.val) ELSE d
    ELSE BincodeDeserialize(bytes)

\* the state outside the serializers' file
outside_file == <<slots, free_head, guards, removed, removedLive, steps,
                  res_vars, world, package, late_vars>>

\* the error of a value whose Serialize implementation fails
SerializeError(st) ==
    IF st = "StringSerializer" THEN CodecErr("RonError")
    ELSE CodecErr("BincodeError")

\* StringSerializer::save / BinarySerializer::save: File::create(path), then
\* the value is serialized, then the bytes are written.  serializes tells
\* whether the Serialize implementation of the value succeeds
serializer_save(st, v, serializes) ==
    /\ file' = FileOf(IF serializes THEN Encode(st, v) ELSE << >>)
    /\ last' = Call("serializer.save", NoHandle, st, v,
                    IF serializes THEN CodecOk(<< >>) ELSE SerializeError(st),
                    FALSE)
    /\ UNCHANGED outside_file

\* StringSerializer::load / BinarySerializer::load
serializer_load(st) ==
    /\ last' = Call("serializer.load", NoHandle, st, << >>,
                    IF file.exists THEN Decode(st, file.bytes)
                    ELSE CodecErr("IoError"),
                    FALSE)
    /\ UNCHANGED file
    /\ UNCHANGED outside_file

\* the longest file a save writes
MaxFileLen == 3 + 4 * MaxLen

\* the file is cut short: only its first n bytes are left (a write that was
\* interrupted, a partial copy)
truncate_file(n) ==
    /\ file.exists
    /\ n < Len(file.bytes)
    /\ file' = FileOf(SubSeq(file.bytes, 1, n))
    /\ last' = Call("truncate", NoHandle, "-", << >>, CodecOk(<< >>), FALSE)
    /\ UNCHANGED outside_file

CodecNext ==
    \/ \E st \in Strategies, v \in CodecValues, serializes \in BOOLEAN :
          serializer_save(st, v, serializes)
    \/ \E st \in Strategies : serializer_load(st)
    \/ \E n \in 0 .. MaxFileLen : truncate_file(n)

SpecCodec == Init /\ [][CodecNext]_vars

(* --------------------------- archive: methods ------------------------- *)

\* the elements of a set of entity ids as a sequence
SeqOf(S) ==
    CHOOSE q \in [1 .. Cardinality(S) -> S] :
        \A i, j \in 1 .. Cardinality(S) : i < j => q[i] < q[j]

\* the shape of the RON text of a component: MyComponent(u32) is a number
\* in parentheses, Transform is a struct
ShapeOf(id) == IF id = "MyComponent" THEN "u32" ELSE "struct"

\* serialize_world (column format) with a loader declared with the components
\* of list: one archetype, the entities carrying MyComponent, with its
\* component ids, its entity ids and one column of component values per id
\* (the values of a Transform are not followed); no archetype when there is
\* no such entity
SerializeWorldWith(w, list) ==
    LET ents == SeqOf({e \in EntityIds : w[e].alive /\ w[e].has}) IN
    IF Len(ents) = 0 THEN << >>
    ELSE << [ids |-> list,
             entities |-> ents,
             columns |-> [k \in 1 .. Len(list) |->
                 [shape |-> ShapeOf(list[k]),
                  vals |-> [i \in 1 .. Len(ents) |->
                               IF list[k] = "MyComponent" THEN w[ents[i]].val
                               ELSE 0]]]] >>

\* serialize_world with the loader of impl_save_load!
SerializeWorld(w) == SerializeWorldWith(w, <<"MyComponent">>)

\* deserialize_components: the loop goes over every id read by
\* deserialize_component_ids; an allow-listed id takes the next column of the
\* sequence, any other id takes nothing.  The column the k-th id is read from
ColumnIndex(arch, k) ==
    Cardinality({j \in 1 .. k - 1 : arch.ids[j] \in AllowList}) + 1

\* deserialize_column fails on a missing column and on one of another shape;
\* the tuple of columns must be used up when the loop ends
ArchetypeOk(arch) ==
    /\ \A k \in 1 .. Len(arch.ids) :
          arch.ids[k] \in AllowList =>
             /\ ColumnIndex(arch, k) <= Len(arch.columns)
             /\ arch.columns[ColumnIndex(arch, k)].shape = ShapeOf(arch.ids[k])
    /\ Len(arch.columns) = ColumnIndex(arch, Len(arch.ids) + 1) - 1

\* deserialize_world returns Ok
WorldDocOk(doc) == \A b \in 1 .. Len(doc) : ArchetypeOk(doc[b])

\* the values read for MyComponent in an archetype
MyColumn(arch) ==
    LET k == CHOOSE j \in 1 .. Len(arch.ids) : arch.ids[j] = "MyComponent" IN
    arch.columns[ColumnIndex(arch, k)].vals

\* deserialize_world: every entity of an archetype is spawned under its saved
\* id; a column is read into the batch when its component id is in the
\* loader's allow-list (deserialize_component_ids / deserialize_components)
DeserializeWorldRenumbered(doc) ==
    [e \in EntityIds |->
        IF \E b \in 1 .. Len(doc) : e \in 1 .. Len(doc[b].entities)
        THEN LET a == CHOOSE b \in 1 .. Len(doc) : e \in 1 .. Len(doc[b].entities)
             IN  Spawned(MyColumn(doc[a])[e])
        ELSE NoEntity]
DeserializeWorld(doc) ==
    [e \in EntityIds |->
        IF \E b \in 1 .. Len(doc) :
              \E k \in 1 .. Len(doc[b].entities) : doc[b].entities[k] = e
        THEN LET a == CHOOSE b \in 1 .. Len(doc) :
                        \E k \in 1 .. Len(doc[b].entities) : doc[b].entities[k] = e
                 i == CHOOSE k \in 1 .. Len(doc[a].entities) : doc[a].entities[k] = e
             IN  IF \E k \in 1 .. Len(doc[a].ids) : doc[a].ids[k] \in AllowList
                 THEN Spawned(MyColumn(doc[a])[i])
                 ELSE Bare
        ELSE NoEntity]

\* Serialize of AssetManager (derive): the slots of the SlotMap, each with its
\* version and, when occupied, the tagged object; lock state and free-list
\* links are not written
SerializeAssets(sl) ==
    [i \in 1 .. Len(sl) |->
        [version |-> 2 * sl[i].gen + (IF sl[i].occupied THEN 1 ELSE 0),
         some |-> sl[i].occupied,
         ty |-> sl[i].cell.ty,
         val |-> sl[i].cell.val]]

\* the highest vacant slot below i, or the end of the list: SlotMap's
\* Deserialize rebuilds the free list walking the slots upwards
VacantBelow(doc, i) ==
    LET V == {j \in 1 .. i - 1 : ~doc[j].some} IN
    IF V = {} THEN Len(doc) + 1 ELSE CHOOSE j \in V : \A k \in V : k <= j

\* Deserialize of AssetManager: versions kept, fresh unlocked cells
DeserializeAssetsNewVersions(doc) ==
    [i \in 1 .. Len(doc) |->
        Slot(0, doc[i].some,
             IF doc[i].some THEN 0 ELSE VacantBelow(doc, i),
             IF doc[i].some THEN NewCell(doc[i].ty, doc[i].val) ELSE NoCell)]
DeserializeAssets(doc) ==
    [i \in 1 .. Len(doc) |->
        Slot(doc[i].version \div 2, doc[i].some,
             IF doc[i].some THEN 0 ELSE VacantBelow(doc, i),
             IF doc[i].some THEN NewCell(doc[i].ty, doc[i].val) ELSE NoCell)]

FreeHeadOf(doc) == VacantBelow(doc, Len(doc) + 1)

\* the entries save appends: world.ron, then assets.ron
SavedEntries(w, sl) ==
    << Entry("world.ron", Payload(TRUE, "world", SerializeWorld(w), << >>)),
       Entry("assets.ron", Payload(TRUE, "assets", << >>, SerializeAssets(sl))) >>

None3 == [kind |-> "Ok", w_some |-> FALSE, w |-> EmptyWorld,
          a_some |-> FALSE, a |-> << >>]

\* the loop of load over the entries from the i-th on: a RON deserializer is
\* built from the bytes of every entry, then the entry is matched by name
LoadByPosition(entries, i, acc) ==
    IF \E k \in 1 .. Len(entries) : ~entries[k].payload.ron
    THEN [acc EXCEPT !.kind = "RonError"]
    ELSE IF Len(entries) < 2 THEN acc
    ELSE IF entries[1].payload.kind # "world" \/ entries[2].payload.kind # "assets"
         THEN [acc EXCEPT !.kind = "RonError"]
    ELSE [acc EXCEPT !.w_some = TRUE,
                     !.w = DeserializeWorld(entries[1].payload.world),
                     !.a_some = TRUE, !.a = entries[2].payload.assets]
RECURSIVE LoadFrom(_, _, _)
LoadFrom(entries, i, acc) ==
    IF i > Len(entries) THEN acc
    ELSE LET e == entries[i] IN
         IF ~e.payload.ron THEN [acc EXCEPT !.kind = "RonError"]
         ELSE IF e.name = "world.ron"
              THEN IF e.payload.kind # "world" \/ ~WorldDocOk(e.payload.world)
                   THEN [acc EXCEPT !.kind = "RonError"]
                   ELSE LoadFrom(entries, i + 1,
                           [acc EXCEPT !.w_some = TRUE,
                                       !.w = DeserializeWorld(e.payload.world)])
         ELSE IF e.name = "assets.ron"
              THEN IF e.payload.kind # "assets"
                   THEN [acc EXCEPT !.kind = "RonError"]
                   ELSE LoadFrom(entries, i + 1,
                           [acc EXCEPT !.a_some = TRUE, !.a = e.payload.assets])
         ELSE LoadFrom(entries, i + 1, acc)

\* what load returns for an archive with these entries: the first error of
\* the loop, else (world.unwrap(), asset_manager.unwrap())
LoadOutcome(entries) ==
    LET r == LoadFrom(entries, 1, None3) IN
    IF r.kind # "Ok" THEN r
    ELSE IF ~r.w_some \/ ~r.a_some THEN [r EXCEPT !.kind = "Panic"]
    ELSE r

\* SaveLoad::save (impl_save_load!)
save ==
    /\ Tick
    /\ SharedBorrowOk
    /\ package' = [exists |-> TRUE, entries |-> SavedEntries(world, slots)]
    /\ last' = Call("save", NoHandle, "-", 0, ArchiveRes("Ok"), FALSE)
    /\ UNCHANGED <<slots, free_head, guards, removed, removedLive>>
    /\ UNCHANGED <<late_vars, res_vars, world, file>>

\* SaveLoad::load (impl_save_load!), its result taking the place of the
\* world and the asset manager: (world, assets) = loader.load(path)?
load ==
    /\ Tick
    /\ ExclusiveBorrowOk
    /\ LET r == IF package.exists THEN LoadOutcome(package.entries)
                 ELSE [None3 EXCEPT !.kind = "IoError"] IN
       /\ last' = Call("load", NoHandle, "-", 0, ArchiveRes(r.kind), FALSE)
       /\ world' = IF r.kind = "Ok" THEN r.w ELSE world
       /\ slots' = IF r.kind = "Ok" THEN DeserializeAssets(r.a) ELSE slots
       /\ free_head' = IF r.kind = "Ok" THEN FreeHeadOf(r.a) ELSE free_head
    /\ UNCHANGED <<guards, removed, removedLive>>
    /\ UNCHANGED <<late_vars, res_vars, package, file>>

\* another program appends an entry to the archive file
add_entry(e) ==
    /\ Tick
    /\ package.exists
    /\ Len(package.entries) < MaxEntries
    /\ package' = [package EXCEPT !.entries = Append(@, e)]
    /\ last' = Call("add_entry", NoHandle, "-", 0, Unit, FALSE)
    /\ UNCHANGED <<slots, free_head, guards, removed, removedLive>>
    /\ UNCHANGED <<late_vars, res_vars, world, file>>

\* another program writes the archive file without its i-th entry
delete_entry(i) ==
    /\ Tick
    /\ package.exists
    /\ i \in 1 .. Len(package.entries)
    /\ package' = [package EXCEPT !.entries =
                      SubSeq(@, 1, i - 1) \o SubSeq(@, i + 1, Len(@))]
    /\ last' = Call("delete_entry", NoHandle, "-", 0, Unit, FALSE)
    /\ UNCHANGED <<slots, free_head, guards, removed, removedLive>>
    /\ UNCHANGED <<late_vars, res_vars, world, file>>

\* another program writes the archive file with its i-th and next entry
\* in the other order
swap_entries(i) ==
    /\ Tick
    /\ package.exists
    /\ i \in 1 .. Len(package.entries) - 1
    /\ package' = [package EXCEPT !.entries =
                      [k \in 1 .. Len(package.entries) |->
                          IF k = i THEN package.entries[i + 1]
                          ELSE IF k = i + 1 THEN package.entries[i]
                          ELSE package.entries[k]]]
    /\ last' = Call("swap_entries", NoHandle, "-", 0, Unit, FALSE)
    /\ UNCHANGED <<slots, free_head, guards, removed, removedLive>>
    /\ UNCHANGED <<late_vars, res_vars, world, file>>

ArchiveNext ==
    \/ \E ty \in Types, val \in Vals : insert(ty, val)
    \/ save
    \/ load
    \/ \E e \in ForeignEntries : add_entry(e)
    \/ \E i \in 1 .. MaxEntries : delete_entry(i)
    \/ \E i \in 1 .. MaxEntries : swap_entries(i)

\* the world handed to save is any world of Worlds
InitArchive == InitWorldless /\ world \in Worlds

SpecArchive == InitArchive /\ [][ArchiveNext]_vars

\* an asset manager with inserted and removed entries, saved and loaded
StoreArchiveNext ==
    \/ \E ty \in Types, val \in Vals : insert(ty, val)
    \/ \E h \in Handles, A \in Types : remove(h, A)
    \/ save
    \/ load

SpecStoreArchive == Init /\ [][StoreArchiveNext]_vars

(* ------------------------------- Mesh --------------------------------- *)

\* Mesh::new
NewMesh(data) == MeshOf(data, FALSE, "None", "None")

\* impl Clone for Mesh
CloneAllFields(m) == m
CloneMesh(m) == MeshOf(m.data, FALSE, "None", "None")

\* #[derive(Serialize)]: the fields not marked #[serde(skip)]
SerializeMesh(m) == [some |-> TRUE, data |-> m.data]

\* #[derive(Deserialize)]: a skipped field gets its Default value
DeserializeMesh(doc) == MeshOf(doc.data, FALSE, "None", "None")

\* Mesh::setup
SetupMesh(m) ==
    IF m.vertex_buffer = "Some" /\ m.index_buffer = "Some" THEN m
    ELSE [m EXCEPT !.vertex_buffer = "Some", !.index_buffer = "Some"]

mesh_new(data) ==
    /\ Len(meshes) < MaxMeshes
    /\ meshes' = Append(meshes, NewMesh(data))
    /\ mesh_last' = MeshCall("new", Len(meshes) + 1, "()")
    /\ UNCHANGED mesh_doc
    /\ UNCHANGED outside_meshes

mesh_clone(i) ==
    /\ i \in 1 .. Len(meshes)
    /\ Len(meshes) < MaxMeshes
    /\ meshes' = Append(meshes, CloneMesh(meshes[i]))
    /\ mesh_last' = MeshCall("clone", i, "()")
    /\ UNCHANGED mesh_doc
    /\ UNCHANGED outside_meshes

mesh_setup(i) ==
    /\ i \in 1 .. Len(meshes)
    /\ meshes' = [meshes EXCEPT ![i] = SetupMesh(@)]
    /\ mesh_last' = MeshCall("setup", i, "()")
    /\ UNCHANGED mesh_doc
    /\ UNCHANGED outside_meshes

\* PrepareModelCommand::execute on a model holding the i-th mesh; pipeline
\* tells whether the renderer has a pipeline for the material
prepare_model(i, pipeline) ==
    /\ i \in 1 .. Len(meshes)
    /\ IF meshes[i].prepared
       THEN /\ meshes' = meshes
            /\ mesh_last' = MeshCall("prepare", i, "Ok")
       ELSE IF ~pipeline
       THEN /\ meshes' = meshes
            /\ mesh_last' = MeshCall("prepare", i, "Err")
       ELSE /\ meshes' = [meshes EXCEPT ![i] =
                             [SetupMesh(@) EXCEPT !.prepared = TRUE]]
            /\ mesh_last' = MeshCall("prepare", i, "Ok")
    /\ UNCHANGED mesh_doc
    /\ UNCHANGED outside_meshes

mesh_serialize(i) ==
    /\ i \in 1 .. Len(meshes)
    /\ mesh_doc' = SerializeMesh(meshes[i])
    /\ mesh_last' = MeshCall("serialize", i, "()")
    /\ UNCHANGED meshes
    /\ UNCHANGED outside_meshes

mesh_deserialize ==
    /\ mesh_doc.some
    /\ Len(meshes) < MaxMeshes
    /\ meshes' = Append(meshes, DeserializeMesh(mesh_doc))
    /\ mesh_last' = MeshCall("deserialize", 0, "()")
    /\ UNCHANGED mesh_doc
    /\ UNCHANGED outside_meshes

\* a Mesh goes out of scope
mesh_drop(i) ==
    /\ i \in 1 .. Len(meshes)
    /\ meshes' = [k \in 1 .. Len(meshes) - 1 |->
                     IF k < i THEN meshes[k] ELSE meshes[k + 1]]
    /\ mesh_last' = MeshCall("drop", i, "()")
    /\ UNCHANGED mesh_doc
    /\ UNCHANGED outside_meshes

MeshNext ==
    \/ \E data \in Vals : mesh_new(data)
    \/ \E i \in 1 .. MaxMeshes : mesh_clone(i)
    \/ \E i \in 1 .. MaxMeshes : mesh_setup(i)
    \/ \E i \in 1 .. MaxMeshes, pipeline \in BOOLEAN : prepare_model(i, pipeline)
    \/ \E i \in 1 .. MaxMeshes : mesh_serialize(i)
    \/ mesh_deserialize
    \/ \E i \in 1 .. MaxMeshes : mesh_drop(i)

SpecMesh == Init /\ [][MeshNext]_vars

(* ------------------------ events and extensions ---------------------- *)

\* Events::push_handler: the entry is filled only when it is vacant
PushAlways(old) == HandlerOf(None)
EntryAfterPush(old) == IF old.present THEN old ELSE HandlerOf(None)

PushResult(old) == IF old.present THEN Logged ELSE Unit

\* Events::push_handler(EventHandler::<E>::new()), as
\* Flatbox::add_event_handler calls it before run and as a system holding
\* Events mutably calls it during run
push_handler(E) ==
    /\ storage' = [storage EXCEPT ![E] = EntryAfterPush(@)]
    /\ eng_last' = EngCall("push_handler", E, PushResult(storage[E]))
    /\ UNCHANGED <<schedules, extensions, running>>
    /\ UNCHANGED outside_engine

\* Extension::apply
Apply(X, sch) ==
    IF X = "BaseRenderExtension"
    THEN [sch EXCEPT !["render"] = Append(@, "clear_screen")]
    ELSE [sch EXCEPT !["setup"] = Append(@, "bind_material"),
                     !["render"] = Append(@, "render_material")]

SystemCount(sch) == Len(sch["setup"]) + Len(sch["update"]) + Len(sch["render"])

\* Flatbox::add_extension
add_extension(X) ==
    /\ ~running
    /\ SystemCount(Apply(X, schedules)) <= MaxSystems
    /\ IF \E i \in 1 .. Len(extensions) : extensions[i] = X
       THEN /\ schedules' = schedules
            /\ eng_last' = EngCall("add_extension", X, Panic)
       ELSE /\ schedules' = Apply(X, schedules)
            /\ eng_last' = EngCall("add_extension", X, Unit)
    /\ UNCHANGED <<storage, extensions, running>>
    /\ UNCHANGED outside_engine

\* the closure Flatbox::run hands to Context::run: the schedule it executes
\* for an event
RunnerWithSetupArm(events) ==
    [i \in 1 .. Len(events) |->
        IF events[i] = "Update" THEN "update"
        ELSE IF events[i] = "Render" THEN "render" ELSE "setup"]
Runner(events) ==
    LET scheduled == SelectSeq(events, LAMBDA e : e \in {"Update", "Render"}) IN
    [i \in 1 .. Len(scheduled) |->
        IF scheduled[i] = "Update" THEN "update" ELSE "render"]

\* Flatbox::run up to the event loop: the schedules are built, the AppExit
\* handler is pushed, the setup schedule is executed; Context::run calls
\* the runner with Setup and takes the event loop, which panics when the
\* loop was taken by an earlier run
run ==
    /\ ~running
    /\ running' = (context.event_loop = "Present")
    /\ storage' = [storage EXCEPT !["AppExit"] = EntryAfterPush(@)]
    /\ emitted' = <<"Setup">>
    /\ executed' = <<"setup">> \o Runner(<<"Setup">>)
    /\ context' = [context EXCEPT !.event_loop = "NotPresent"]
    /\ eng_last' = EngCall("run",
                           IF context.event_loop = "Present" THEN "-"
                           ELSE "EventLoop is not present",
                           PushResult(storage["AppExit"]))
    /\ UNCHANGED <<schedules, extensions>>
    /\ UNCHANGED outside_loop

\* ContextEvent::UpdateEvent / RenderEvent: one execution of a schedule
execute_schedule(stage) ==
    /\ running
    /\ stage \in {"update", "render"}
    /\ eng_last' = EngCall("execute", stage, Unit)
    /\ UNCHANGED <<storage, schedules, extensions, running>>
    /\ UNCHANGED outside_engine

\* EventHandler::send: self.events = Some(event)
SendKeepsUnread(old, event) == IF old = None THEN Some(event) ELSE old
EventsAfterSend(old, event) == Some(event)

\* a system: events.get_handler_mut::<E>() and EventHandler::send
send(E, event) ==
    /\ running
    /\ IF storage[E].present
       THEN /\ storage' = [storage EXCEPT ![E].events = EventsAfterSend(@, event)]
            /\ eng_last' = EngCallVal("send", E, event, Unit)
       ELSE /\ storage' = storage
            /\ eng_last' = EngCallVal("send", E, event, None)
    /\ UNCHANGED <<schedules, extensions, running>>
    /\ UNCHANGED outside_engine

\* a system: events.get_handler::<E>() and EventHandler::read
read(E) ==
    /\ running
    /\ eng_last' = EngCall("read", E, storage[E].events)
    /\ UNCHANGED <<storage, schedules, extensions, running>>
    /\ UNCHANGED outside_engine

\* a system: events.get_handler_mut::<E>() and EventHandler::clear
clear(E) ==
    /\ running
    /\ storage[E].present
    /\ storage' = [storage EXCEPT ![E].events = None]
    /\ eng_last' = EngCall("clear", E, Unit)
    /\ UNCHANGED <<schedules, extensions, running>>
    /\ UNCHANGED outside_engine

(* ------------------------------ the loop ------------------------------ *)

\* n copies of e
Repeat(e, n) == [i \in 1 .. n |-> e]

\* Context::next_frame with elapsed ticks passed since the previous frame:
\* the context afterwards and the events the runner was called with
NextFrameOneUpdate(c, elapsed) ==
    [context |-> [c EXCEPT !.accumulated_time = @ + elapsed],
     events |-> <<"Update", "Render">>]
NextFrame(c, elapsed) ==
    IF c.exit_next_iteration THEN [context |-> c, events |-> << >>]
    ELSE LET el == IF elapsed > MaxFrameTime THEN MaxFrameTime ELSE elapsed
             acc == c.accumulated_time + el
         IN  [context |-> [c EXCEPT !.accumulated_time = acc % FixedTimeStep],
              events |-> Repeat("Update", acc \div FixedTimeStep)
                            \o (IF c.window_occluded THEN << >> ELSE <<"Render">>)]

\* Event::RedrawRequested: next_frame(&mut runner)
redraw_requested(elapsed) ==
    /\ running
    /\ LET f == NextFrame(context, elapsed) IN
       /\ context' = f.context
       /\ emitted' = f.events
       /\ executed' = Runner(f.events)
    /\ eng_last' = EngCallVal("next_frame", "-", elapsed, Unit)
    /\ UNCHANGED <<storage, schedules, extensions, running>>
    /\ UNCHANGED outside_loop

\* Event::WindowEvent: CloseRequested ends the loop and run returns
window_event(event) ==
    /\ running
    /\ context' = [context EXCEPT !.window_occluded =
                       IF event = "Occluded(true)" THEN TRUE
                       ELSE IF event = "Occluded(false)" THEN FALSE ELSE @]
    /\ emitted' = IF event = "Resized" THEN <<"Resize", "Window">> ELSE <<"Window">>
    /\ executed' = Runner(emitted')
    /\ running' = (event # "CloseRequested")
    /\ eng_last' = EngCall("window_event", event, Unit)
    /\ UNCHANGED <<storage, schedules, extensions>>
    /\ UNCHANGED outside_loop

LoopNext ==
    \/ \E X \in ExtensionTypes : add_extension(X)
    \/ run
    \/ \E elapsed \in 0 .. MaxElapsed : redraw_requested(elapsed)
    \/ \E event \in WindowEvents : window_event(event)

SpecLoop == Init /\ [][LoopNext]_vars

EngineNext ==
    \/ \E E \in EventTypes : push_handler(E)
    \/ \E X \in ExtensionTypes : add_extension(X)
    \/ run
    \/ \E stage \in Stages : execute_schedule(stage)
    \/ \E E \in EventTypes, event \in Vals : send(E, event)
    \/ \E E \in EventTypes : read(E)
    \/ \E E \in EventTypes : clear(E)

SpecEngine == Init /\ [][EngineNext]_vars

(* a file written with a larger allow-list *)

\* the component lists of loaders that know Transform besides MyComponent
WiderLists == {<<"Transform", "MyComponent">>, <<"MyComponent", "Transform">>}

\* SaveLoad::save of a loader declared with the components of list, run on
\* the same world (its entities carrying a Transform besides MyComponent)
save_wider(list) ==
    /\ Tick
    /\ SharedBorrowOk
    /\ package' = [exists |-> TRUE,
                   entries |->
                     << Entry("world.ron",
                              Payload(TRUE, "world", SerializeWorldWith(world, list), << >>)),
                        Entry("assets.ron",
                              Payload(TRUE, "assets", << >>, SerializeAssets(slots))) >>]
    /\ last' = Call("save_wider", NoHandle, "-", 0, ArchiveRes("Ok"), FALSE)
    /\ UNCHANGED <<slots, free_head, guards, removed, removedLive>>
    /\ UNCHANGED <<late_vars, res_vars, world, file>>

WiderNext ==
    \/ \E ty \in Types, val \in Vals : insert(ty, val)
    \/ save
    \/ \E list \in WiderLists : save_wider(list)
    \/ load

SpecWiderSaver == InitArchive /\ [][WiderNext]_vars

(* SaveLoad::save, statement by statement *)

\* <[u8]>::len of a payload: the brackets and one unit per item
ByteLen(p) ==
    IF p.kind = "world"
    THEN 2 + (IF Len(p.world) = 0 THEN 0 ELSE Len(p.world[1].entities))
    ELSE 2 + Len(p.assets)

\* create_header(path, size)
AssetsHeaderOfWorldSize(path, size) ==
    [path |-> path, size |-> IF Len(tar) > 0 THEN tar[1].header.size ELSE size]
create_header(path, size) == [path |-> path, size |-> size]

\* the world is serialized into buf and the empty tar::Builder is made; a
\* serialization error is returned at once
save_begin(serializes) ==
    /\ Tick
    /\ SharedBorrowOk
    /\ ~SaveRunning
    /\ IF serializes
       THEN /\ buf' = Payload(TRUE, "world", SerializeWorld(world), << >>)
            /\ save_pc' = "Empty"
            /\ last' = Call("save.begin", NoHandle, "-", 0, Unit, FALSE)
       ELSE /\ buf' = << >>
            /\ save_pc' = "Idle"
            /\ last' = Call("save", NoHandle, "-", 0, ArchiveRes("RonError"), FALSE)
    /\ tar' = << >>
    /\ UNCHANGED <<slots, free_head, guards, removed, removedLive>>
    /\ UNCHANGED <<res_vars, world, package, file, mesh_vars, engine_vars,
                 context_vars, render_vars, scene_vars>>

\* archive.append(&world_header, world)
save_append_world ==
    /\ save_pc = "Empty"
    /\ tar' = Append(tar, [header |-> create_header("world.ron", ByteLen(buf)),
                           data |-> buf])
    /\ save_pc' = "Writing"
    /\ last' = Call("save.append", NoHandle, "-", 0, Unit, FALSE)
    /\ UNCHANGED <<slots, free_head, guards, removed, removedLive, steps, buf>>
    /\ UNCHANGED <<res_vars, world, package, file, mesh_vars, engine_vars,
                 context_vars, render_vars, scene_vars>>

\* the asset manager is serialized and appended; a serialization error is
\* returned and the builder dropped
save_append_assets(serializes) ==
    /\ save_pc = "Writing"
    /\ Len(tar) = 1
    /\ IF serializes
       THEN LET assets == Payload(TRUE, "assets", << >>, SerializeAssets(slots)) IN
            /\ tar' = Append(tar,
                        [header |-> create_header("assets.ron", ByteLen(assets)),
                         data |-> assets])
            /\ save_pc' = "Writing"
            /\ buf' = buf
            /\ last' = Call("save.append", NoHandle, "-", 0, Unit, FALSE)
       ELSE /\ tar' = << >>
            /\ save_pc' = "Idle"
            /\ buf' = << >>
            /\ last' = Call("save", NoHandle, "-", 0, ArchiveRes("RonError"), FALSE)
    /\ UNCHANGED <<slots, free_head, guards, removed, removedLive, steps>>
    /\ UNCHANGED <<res_vars, world, package, file, mesh_vars, engine_vars,
                 context_vars, render_vars, scene_vars>>

\* archive.into_inner(), File::create(path), the lz4 encoder, io::copy,
\* encoder.finish(): the file holds the entries of the builder
save_finish ==
    /\ save_pc = "Writing"
    /\ Len(tar) = 2
    /\ package' = [exists |-> TRUE,
                   entries |-> [i \in 1 .. Len(tar) |->
                                   Entry(tar[i].header.path, tar[i].data)]]
    /\ save_pc' = "Finalized"
    /\ tar' = << >>
    /\ buf' = << >>
    /\ last' = Call("save", NoHandle, "-", 0, ArchiveRes("Ok"), FALSE)
    /\ UNCHANGED <<slots, free_head, guards, removed, removedLive, steps>>
    /\ UNCHANGED <<res_vars, world, file, mesh_vars, engine_vars,
                 context_vars, render_vars, scene_vars>>

SaveStepsNext ==
    \/ \E ty \in Types, val \in Vals : insert(ty, val)
    \/ \E serializes \in BOOLEAN : save_begin(serializes)
    \/ save_append_world
    \/ \E serializes \in BOOLEAN : save_append_assets(serializes)
    \/ save_finish
    \/ load

SpecSaveSteps == InitArchive /\ [][SaveStepsNext]_vars

(* ------------------------------ renderer ------------------------------ *)

\* the most commands Renderer::execute is followed through
MaxCommands == 7

\* RenderCommandsHistory.max_capacity, which Renderer::init sets to 50
HistoryCapacity == 3

\* a history that, once full, refuses the newest name instead of evicting
PushKeepOldest(cache, name) ==
    IF Len(cache) >= HistoryCapacity THEN cache ELSE Append(cache, name)

\* RenderCommandsHistory::push
Push(cache, name) ==
    Append(IF Len(cache) >= HistoryCapacity THEN Tail(cache) ELSE cache, name)

\* the renderer and the meshes of the models its commands borrow
RendererState == [meshes |-> meshes, cache |-> commands_history,
                  issued |-> issued]

RenderOut(r, res) == [r |-> r, res |-> res]

\* the first statement of Renderer::execute: the command's name enters the
\* history before the command runs
Record(r, name) ==
    [r EXCEPT !.cache = Push(@, name), !.issued = Append(@, name)]

\* Renderer::execute(EnableCommand)
ExecuteEnable(r) == RenderOut(Record(r, "EnableCommand"), "Ok")

\* Renderer::execute(DrawTrianglesCommand)
ExecuteDrawTriangles(r) == RenderOut(Record(r, "DrawTrianglesCommand"), "Ok")

\* Renderer::execute(ClearCommand): the command enables Blend and DepthTest
\* through the renderer
ExecuteClear(r) ==
    LET blend == ExecuteEnable(Record(r, "ClearCommand"))
    IN  ExecuteEnable(blend.r)

\* Renderer::execute(RenderCameraCommand<M>)
ExecuteRenderCamera(r, pipeline) ==
    RenderOut(Record(r, "RenderCameraCommand"),
              IF pipeline THEN "Ok" ELSE "MaterialNotBound")

\* Renderer::execute(PrepareModelCommand<M>) on a model holding the i-th mesh,
\* or no mesh when i = 0
ExecutePrepareModel(r, i, pipeline) ==
    LET r1 == Record(r, "PrepareModelCommand")
    IN  IF i = 0 THEN RenderOut(r1, "Ok")
        ELSE IF r1.meshes[i].prepared THEN RenderOut(r1, "Ok")
        ELSE IF ~pipeline THEN RenderOut(r1, "MaterialNotBound")
        ELSE RenderOut([r1 EXCEPT !.meshes[i] =
                           [SetupMesh(r1.meshes[i]) EXCEPT !.prepared = TRUE]],
                       "Ok")

\* a draw command that does not look at Mesh.prepared
ExecuteDrawUnprepared(r, i, pipeline) ==
    LET r1 == Record(r, "DrawModelCommand")
    IN  IF i = 0 THEN RenderOut(r1, "Ok")
        ELSE IF ~pipeline THEN RenderOut(r1, "MaterialNotBound")
        ELSE ExecuteDrawTriangles(r1)

\* Renderer::execute(DrawModelCommand<M>) on a model holding the i-th mesh,
\* or no mesh when i = 0
ExecuteDrawModel(r, i, pipeline) ==
    LET r1 == Record(r, "DrawModelCommand")
    IN  IF i = 0 THEN RenderOut(r1, "Ok")
        ELSE IF ~r1.meshes[i].prepared THEN RenderOut(r1, "ModelNotPrepared")
        ELSE IF ~pipeline THEN RenderOut(r1, "MaterialNotBound")
        ELSE ExecuteDrawTriangles(r1)

\* the loop of render_material over the models from the i-th on: prepare,
\* then draw, leaving at the first error
RECURSIVE RenderModels(_, _, _)
RenderModels(r, i, pipeline) ==
    IF i > Len(r.meshes) THEN RenderOut(r, "Ok")
    ELSE LET prepared == ExecutePrepareModel(r, i, pipeline)
         IN  IF prepared.res # "Ok" THEN prepared
             ELSE LET drawn == ExecuteDrawModel(prepared.r, i, pipeline)
                  IN  IF drawn.res # "Ok" THEN drawn
                      ELSE RenderModels(drawn.r, i + 1, pipeline)

\* render_material::<M> in a world with so many active cameras and one model
\* per mesh
RenderMaterial(r, cameras, pipeline) ==
    IF cameras = 0 THEN RenderOut(r, "Ok")
    ELSE LET camera == ExecuteRenderCamera(r, pipeline)
         IN  IF camera.res # "Ok" THEN camera
             ELSE LET models == RenderModels(camera.r, 1, pipeline)
                  IN  IF models.res # "Ok" THEN models
                      ELSE IF cameras > 1
                      THEN RenderOut(models.r, "MultipleActiveCameras")
                      ELSE models

\* the renderer and the meshes take the state a system left them in
Rendered(op, i, out) ==
    /\ Len(out.r.issued) <= MaxCommands
    /\ meshes' = out.r.meshes
    /\ commands_history' = out.r.cache
    /\ issued' = out.r.issued
    /\ mesh_last' = MeshCall(op, i, out.res)
    /\ UNCHANGED mesh_doc
    /\ UNCHANGED outside_render

clear_screen ==
    /\ Len(issued) < MaxCommands
    /\ Rendered("clear_screen", 0, ExecuteClear(RendererState))

execute_prepare(i, pipeline) ==
    /\ i \in 0 .. Len(meshes)
    /\ Len(issued) < MaxCommands
    /\ Rendered("execute_prepare", i,
                ExecutePrepareModel(RendererState, i, pipeline))

execute_draw(i, pipeline) ==
    /\ i \in 0 .. Len(meshes)
    /\ Len(issued) < MaxCommands
    /\ Rendered("execute_draw", i,
                ExecuteDrawModel(RendererState, i, pipeline))

render_material(cameras, pipeline) ==
    /\ Len(issued) < MaxCommands
    /\ Rendered("render_material", cameras,
                RenderMaterial(RendererState, cameras, pipeline))

RenderNext ==
    \/ mesh_new(1)
    \/ clear_screen
    \/ \E i \in 0 .. MaxMeshes, pipeline \in BOOLEAN : execute_prepare(i, pipeline)
    \/ \E i \in 0 .. MaxMeshes, pipeline \in BOOLEAN : execute_draw(i, pipeline)
    \/ \E cameras \in 0 .. 2, pipeline \in BOOLEAN :
          render_material(cameras, pipeline)

SpecRender == Init /\ [][RenderNext]_vars

(* ------------------------------- scenes ------------------------------- *)

\* the most entities a Scene holds, the most components a SerializableEntity
\* holds, and the most entities the World is followed through spawning
MaxSceneEntities == 2
MaxComponents == 2
MaxSpawned == 4

\* two of the types impl_ser_component! makes SerializableComponents
SceneTypes == {"u32", "bool"}

SceneComponents == [ty : SceneTypes, val : Vals]

\* SerializableEntity.components: Vec<Arc<Mutex<Box<dyn SerializableComponent>>>>
SerializableEntities ==
    UNION {[1 .. n -> SceneComponents] : n \in 0 .. MaxComponents}

\* Scene.entities
SceneEntities ==
    UNION {[1 .. n -> SerializableEntities] : n \in 0 .. MaxSceneEntities}

NoComponent == [some |-> FALSE, val |-> 0]

\* EntityBuilder::new()
EntityBuilderNew == [ty \in SceneTypes |-> NoComponent]

\* SerializableComponent::add_into, which is EntityBuilder::add of a clone:
\* the builder holds one component per type, the one added last
AddInto(builder, component) ==
    [builder EXCEPT ![component.ty] = [some |-> TRUE, val |-> component.val]]

\* the inner loop of spawn_scene over one entity's components
RECURSIVE AddComponents(_, _)
AddComponents(builder, components) ==
    IF components = << >> THEN builder
    ELSE AddComponents(AddInto(builder, Head(components)), Tail(components))

\* World::spawn of a built entity, the n-th entity this World spawns
SpawnBuilt(w, n, built) == Append(w, [born |-> n, components |-> built])

\* the outer loop of spawn_scene
RECURSIVE SpawnEntities(_, _, _)
SpawnEntities(w, n, entities) ==
    IF entities = << >> THEN w
    ELSE SpawnEntities(
             SpawnBuilt(w, n + 1,
                        AddComponents(EntityBuilderNew, Head(entities))),
             n + 1, Tail(entities))

\* World::clear() followed by the spawning loop
SpawnScene(w, n, entities) == SpawnEntities(<< >>, n, entities)

\* World::spawn of an entity built from the components
spawn(components) ==
    /\ Len(ecs) < MaxEntities
    /\ spawned < MaxSpawned
    /\ ecs' = SpawnEntities(ecs, spawned, <<components>>)
    /\ spawned' = spawned + 1
    /\ scene_last' = SceneCall("spawn", <<components>>, spawned)
    /\ UNCHANGED outside_scene

\* SpawnSceneExt::spawn_scene for World
spawn_scene(entities) ==
    /\ spawned + Len(entities) <= MaxSpawned
    /\ ecs' = SpawnScene(ecs, spawned, entities)
    /\ spawned' = spawned + Len(entities)
    /\ scene_last' = SceneCall("spawn_scene", entities, spawned)
    /\ UNCHANGED outside_scene

SceneNext ==
    \/ \E components \in SerializableEntities : spawn(components)
    \/ \E entities \in SceneEntities : spawn_scene(entities)

SpecScene == Init /\ [][SceneNext]_vars

(* ------------------------------ claims -------------------------------- *)

\* the cell a live handle resolves to
CellOf(h) == slots[h.idx].cell

IsLookup(call) == call.op \in {"get", "get_mut"}

\* C1: a get::<T>(h) that directly follows h = insert(v), with T the type of
\* v, returns Ok with a guard whose contents equal v.
C1_HandleRoundTrip ==
    [][(/\ last.op = "insert"
        /\ last'.op = "get"
        /\ last'.h = last.res.h
        /\ last'.ty = last.ty) => last'.res = Ok(last.val)]_vars

C1_Witness ==
    /\ last.op = "get"
    /\ last.fresh
    /\ last.res = Ok(1)
    /\ last.h.gen = 1

C3_NoAliasAfterReuse ==
    removedLive =>
        /\ ~ContainsKey(removed)
        /\ last.op = "insert" => last.res.h # removed
        /\ (last.op = "insert" /\ last.res.h.idx = removed.idx)
              => last.res.h.gen # removed.gen
        /\ (IsLookup(last) /\ last.h = removed) => last.res = InvalidHandle

C3_Witness ==
    /\ removedLive
    /\ last.op = "insert"
    /\ last.res.h.idx = removed.idx
    /\ slots[removed.idx].occupied

\* C4: get::<B> and get_mut::<B> of a live, unlocked handle whose object has
\* another type A return WrongAssetType carrying B, hand out no guard, and
\* leave the object and the cell's lock as they were.
C4_WrongTypeIsAnError ==
    [][\A h \in Handles :
        (/\ IsLookup(last') /\ last'.h = h
         /\ ContainsKey(h)
         /\ CellOf(h).readers = 0 /\ CellOf(h).writers = 0
         /\ CellOf(h).ty # last'.ty)
        => (/\ last'.res = WrongAssetType(last'.ty)
            /\ slots' = slots
            /\ guards' = guards)]_vars

C4_Witness ==
    /\ last.op = "get_mut"
    /\ last.res = WrongAssetType("String")
    /\ ContainsKey(last.h)
    /\ CellOf(last.h).ty = "u32"

\* C5: every cell is held by nobody, by readers only, or by exactly one writer
\* and no reader; the guards callers hold are among those holders.
C5_ReadersOrOneWriter ==
    \A i \in 1 .. Len(slots) :
        /\ \/ slots[i].cell.writers = 0
           \/ slots[i].cell.writers = 1 /\ slots[i].cell.readers = 0
        /\ guards[i].r <= slots[i].cell.readers
        /\ guards[i].w <= slots[i].cell.writers
        /\ \/ guards[i].w = 0
           \/ guards[i].w = 1 /\ guards[i].r = 0

C5_Witness ==
    \E i \in 1 .. Len(slots) : guards[i].r = 2 /\ slots[i].cell.readers = 2

\* C6: get and get_mut never wait for a cell's lock.  A get of a cell a writer
\* holds returns AssetBlocked, a get_mut of a cell anyone holds returns
\* AssetBlocked, and the held lock does not keep the call from completing.
C6_Blocked ==
    [][\A h \in Handles :
        /\ (last'.op = "get" /\ last'.h = h /\ ContainsKey(h)
              /\ CellOf(h).writers > 0) => last'.res = AssetBlocked
        /\ (last'.op = "get_mut" /\ last'.h = h /\ ContainsKey(h)
              /\ (CellOf(h).writers > 0 \/ CellOf(h).readers > 0))
             => last'.res = AssetBlocked]_vars

C6_NoWait ==
    \A h \in Handles, A \in Types :
        (ContainsKey(h) /\ steps < MaxSteps) =>
            /\ (SharedBorrowOk /\ CellOf(h).writers > 0) => ENABLED get(h, A)
            /\ (ExclusiveBorrowOk
                  /\ (CellOf(h).writers > 0 \/ CellOf(h).readers > 0))
                 => ENABLED get_mut(h, A)

\* C6: a lookup of a held cell returns AssetBlocked in the step of the call
\* (C6_Blocked), and in every state the call can be made whatever the lock
\* state (C6_NoWait): get and get_mut fail fast and never wait.
C6_FailFast == C6_Blocked /\ []C6_NoWait

C6_Witness ==
    /\ last.op = "get"
    /\ last.res = AssetBlocked
    /\ ContainsKey(last.h)
    /\ CellOf(last.h).writers = 1

\* C7, as stated: while a write guard got by get_mut(h1) is live, get_mut(h2)
\* of another live handle h2 can be called and succeeds.
C7_IndependentWriters ==
    \A i, j \in 1 .. Len(slots) :
        (/\ i # j
         /\ guards[i].w > 0
         /\ slots[j].occupied
         /\ slots[j].cell.readers = 0 /\ slots[j].cell.writers = 0
         /\ steps < MaxSteps)
        => ENABLED get_mut([idx |-> j, gen |-> slots[j].gen], slots[j].cell.ty)

\* C8, as stated: while a guard is live the map can be mutated, by insert and
\* by remove of the guarded or of another handle.
C8_MapMutableUnderGuard ==
    (/\ \E i \in 1 .. Len(slots) : guards[i].r > 0 \/ guards[i].w > 0
     /\ steps < MaxSteps)
    => /\ \A i \in 1 .. Len(slots) :
            slots[i].occupied
               => ENABLED remove([idx |-> i, gen |-> slots[i].gen], slots[i].cell.ty)
       /\ Len(slots) < MaxSlots => ENABLED insert("u32", 0)

\* C9, as stated: remove::<T>(h) returns Some(v), v the value stored under h,
\* exactly when h is live and its object has type T, and None otherwise (no
\* other reference or guard to the cell exists whenever remove can be called).
C9_RemoveResult ==
    [][\A h \in Handles :
        (last'.op = "remove" /\ last'.h = h)
        => last'.res = IF ContainsKey(h) /\ CellOf(h).ty = last'.ty
                       THEN Some(CellOf(h).val)
                       ELSE None]_vars

\* C10: get and get_mut report InvalidHandle before AssetBlocked before
\* WrongAssetType: a handle that is not live gives InvalidHandle whatever the
\* type asked for, and a wrong type asked of a live cell whose lock cannot be
\* taken gives AssetBlocked.
C10_ErrorPriority ==
    [][\A h \in Handles :
        (IsLookup(last') /\ last'.h = h) =>
            /\ ~ContainsKey(h) => last'.res = InvalidHandle
            /\ (/\ ContainsKey(h)
                /\ CellOf(h).ty # last'.ty
                /\ \/ CellOf(h).writers > 0
                   \/ last'.op = "get_mut" /\ CellOf(h).readers > 0)
               => last'.res = AssetBlocked]_vars

C10_Witness ==
    /\ last.op = "get"
    /\ last.res = AssetBlocked
    /\ ContainsKey(last.h)
    /\ CellOf(last.h).ty # last.ty

\* whether h is a key of the map after the step
ContainsKeyAfter(h) ==
    /\ h.idx \in 1 .. Len(slots')
    /\ slots'[h.idx].occupied
    /\ slots'[h.idx].gen = h.gen

\* C11: insert never fails: it returns a handle, and that handle differs from
\* every handle that was live when insert was called; after the call it is
\* live and resolves to a fresh cell holding the inserted object.
C11_InsertFreshHandle ==
    [][last'.op = "insert" =>
        /\ last'.res.kind = "Handle"
        /\ last'.res.h \in Handles
        /\ ~ContainsKey(last'.res.h)
        /\ ContainsKeyAfter(last'.res.h)
        /\ slots'[last'.res.h.idx].cell = NewCell(last'.ty, last'.val)]_vars

C11_Witness ==
    /\ last.op = "insert"
    /\ last.res.h.gen = 1
    /\ \E i \in 1 .. Len(slots) : i # last.res.h.idx /\ slots[i].occupied

\* C12: insert(v) and remove(h) leave every other live handle's entry as it
\* was: each live handle other than the one inserted or removed stays live
\* and resolves to the same cell, so get of it yields the same value.
C12_OthersUntouched ==
    [][\A h \in Handles :
        (/\ last'.op \in {"insert", "remove"}
         /\ ContainsKey(h)
         /\ last'.op = "remove" => h # last'.h)
        => (/\ ContainsKeyAfter(h)
            /\ slots'[h.idx].cell = slots[h.idx].cell)]_vars

C12_Witness ==
    /\ last.op = "remove"
    /\ removedLive /\ removed = last.h
    /\ ~ContainsKey(last.h)
    /\ \E h \in Handles : h.idx # last.h.idx /\ ContainsKey(h) /\ CellOf(h).val = 1

C14_FirstRegistrationKept ==
    [][\A R \in ResTypes :
        (res_last'.op = "add_resource" /\ res_last'.ty = R /\ resources[R].present)
        => resources'[R] = resources[R]]_vars

\* C15: get_resource_mut::<R> returns None at once while anyone holds R's
\* lock and get_resource::<R> while a writer holds it, whatever guards are
\* held on other types: the result of either call is decided by R's entry
\* alone, and both can be called whatever the lock state.  So R is held by
\* nobody, by readers only, or by exactly one writer and no reader.
C15_Results ==
    [][\A R \in ResTypes :
        /\ (res_last'.op = "get_resource" /\ res_last'.ty = R) =>
              res_last'.res = IF resources[R].present /\ resources[R].writers = 0
                              THEN Some(resources[R].val) ELSE None
        /\ (res_last'.op = "get_resource_mut" /\ res_last'.ty = R) =>
              res_last'.res = IF /\ resources[R].present
                                 /\ resources[R].writers = 0
                                 /\ resources[R].readers = 0
                              THEN Some(resources[R].val) ELSE None]_vars

C15_Exclusive ==
    \A R \in ResTypes :
        /\ \/ resources[R].writers = 0
           \/ resources[R].writers = 1 /\ resources[R].readers = 0
        /\ res_guards[R].r <= resources[R].readers
        /\ res_guards[R].w <= resources[R].writers
        /\ ENABLED get_resource_mut(R)
        /\ resources[R].readers < MaxReaders => ENABLED get_resource(R)

\* C15: the calls on R are decided by R's entry alone and fail at once on a
\* held lock (C15_Results), and in every state R has no holder, readers
\* only, or one writer and no reader, with both calls callable
\* (C15_Exclusive).
C15_PerTypeLocks == C15_Results /\ []C15_Exclusive

C15_Witness ==
    /\ res_last.op = "get_resource_mut"
    /\ res_last.ty = "Config"
    /\ res_last.res = Some(1)
    /\ res_guards["Time"].w = 1
    /\ res_guards["Config"].w = 1

\* C18: for each strategy and each value v, a load that directly follows a
\* successful save of v with the same strategy returns Ok with a value equal
\* to v.
C18_CodecRoundTrip ==
    [][(/\ last.op = "serializer.save"
        /\ last.res.kind = "Ok"
        /\ last'.op = "serializer.load"
        /\ last'.ty = last.ty) => last'.res = CodecOk(last.val)]_vars

C18_Witness ==
    /\ last.op = "serializer.load"
    /\ last.ty = "BinarySerializer(Some(CompressionLevel(4)))"
    /\ last.res = CodecOk(<<1, 0>>)
    /\ file = FileOf(<<Lz4Magic, 3, 2, 1, 0, Lz4EndMark>>)

\* what serialization keeps of an asset manager: per slot its version and,
\* when occupied, the object
StoreContents(sl) ==
    [i \in 1 .. Len(sl) |->
        [gen |-> sl[i].gen, occupied |-> sl[i].occupied,
         ty |-> sl[i].cell.ty, val |-> sl[i].cell.val]]

Recognised(e) == e.name \in {"world.ron", "assets.ron"}

\* C17, as stated: a load of an archive that lacks the world entry or the
\* assets entry returns an error; it does not panic.
C17_MissingEntryIsError ==
    [][(/\ last'.op = "load"
        /\ package.exists
        /\ \/ \A i \in 1 .. Len(package.entries) :
                 package.entries[i].name # "world.ron"
           \/ \A i \in 1 .. Len(package.entries) :
                 package.entries[i].name # "assets.ron")
       => last'.res.kind \in {"RonError", "IoError"}]_vars

\* C19: after a save and the load that follows it, get of every handle that
\* was live at the save returns an object of the same type and value, and
\* get of every handle that was not live returns InvalidHandle.
C19_HandlesSurviveArchive ==
    [][(last.op = "save" /\ last'.op = "load") =>
        /\ last'.res.kind = "Ok"
        /\ \A h \in Handles, A \in Types :
              GetResult(h, A)' =
                 IF ~ContainsKey(h) THEN InvalidHandle
                 ELSE IF CellOf(h).ty # A THEN WrongAssetType(A)
                 ELSE Ok(CellOf(h).val)]_vars

C19_Witness ==
    /\ last.op = "load"
    /\ last.res.kind = "Ok"
    /\ removedLive
    /\ removed.gen = 0
    /\ ContainsKey([idx |-> removed.idx, gen |-> 1])

\* C20, as stated: entries under names load does not recognise change
\* nothing: load of an archive returns what load of the archive without
\* those entries returns, the same success or failure and the same world and
\* asset manager.
C20_UnknownEntriesIgnored ==
    [][(last'.op = "load" /\ package.exists) =>
        LET clean == LoadOutcome(SelectSeq(package.entries, Recognised)) IN
        /\ last'.res.kind = clean.kind
        /\ clean.kind = "Ok" =>
              /\ world' = clean.w
              /\ slots' = DeserializeAssets(clean.a)]_vars

\* the orders of n entries
Orders(n) == {p \in [1 .. n -> 1 .. n] : \A i, j \in 1 .. n : i # j => p[i] # p[j]}

\* C21: load dispatches by name: what a load returns, the result and the
\* world and asset manager it yields, is what load returns for the same
\* entries in any other order.
C21_OrderIndependent ==
    [][(last'.op = "load" /\ package.exists) =>
        \A p \in Orders(Len(package.entries)) :
            LET o == LoadOutcome([i \in 1 .. Len(package.entries) |->
                                     package.entries[p[i]]]) IN
            /\ last'.res.kind = o.kind
            /\ o.kind = "Ok" =>
                  /\ world' = o.w
                  /\ slots' = DeserializeAssets(o.a)]_vars

C21_Witness ==
    /\ last.op = "load"
    /\ last.res.kind = "Ok"
    /\ package.entries[1].name = "assets.ron"
    /\ package.entries[2].name = "world.ron"
    /\ world[2] = Spawned(1)
    /\ Len(slots) = 1

\* a complete LZ4 frame: magic number, one block of the announced size, end
\* mark
CompleteFrame(bytes) ==
    /\ Len(bytes) >= 3
    /\ bytes[1] = Lz4Magic
    /\ Len(bytes) = bytes[2] + 3
    /\ bytes[Len(bytes)] = Lz4EndMark

\* C22, as stated: BinarySerializer::load with a compression level returns
\* an I/O error whenever the file is not a complete compressed stream
\* (corrupted or truncated), and never an Ok value.
C22_TruncatedIsIoError ==
    [][(/\ last'.op = "serializer.load"
        /\ Compressed(last'.ty)
        /\ file.exists
        /\ ~CompleteFrame(file.bytes)) => last'.res = CodecErr("IoError")]_vars

\* the tokens of a RON list of the items of v, with or without a comma
\* after the last item
RonTokens(v, trailing) ==
    LET n == IF trailing THEN 2 * Len(v) ELSE 2 * Len(v) - 1 IN
    <<OpenBracket>>
        \o [i \in 1 .. (IF Len(v) = 0 THEN 0 ELSE n) |->
               IF i % 2 = 1 THEN Digit0 + v[(i + 1) \div 2] ELSE Comma]
        \o <<CloseBracket>>

\* the bytes are the RON text of a list of digits
IsRonText(bytes) ==
    \E v \in CodecValues, trailing \in BOOLEAN :
        SelectSeq(bytes, LAMBDA b : ~IsWhitespace(b)) = RonTokens(v, trailing)

\* the bytes begin with the bincode encoding of a byte vector: a length and
\* that many elements
StartsWithBincode(bytes) ==
    \E k \in 1 .. Len(bytes) : bytes[1] = k - 1

C24_SaveOrder ==
    [][/\ save_pc' # save_pc =>
             <<save_pc, save_pc'>> \in
                 {<<"Idle", "Empty">>, <<"Finalized", "Empty">>,
                  <<"Empty", "Writing">>, <<"Writing", "Finalized">>,
                  <<"Writing", "Idle">>, <<"Finalized", "Idle">>}
       /\ (save_pc' = "Empty") = (SaveRunning' /\ Len(tar') = 0)
       /\ Len(tar') <= 2
       /\ \A i \in 1 .. Len(tar') :
             /\ tar'[i].header.path = <<"world.ron", "assets.ron">>[i]
             /\ tar'[i].header.size = ByteLen(tar'[i].data)
       /\ Len(tar') >= 1 =>
             tar'[1].data = Payload(TRUE, "world", SerializeWorld(world), << >>)
       /\ Len(tar') = 2 =>
             tar'[2].data = Payload(TRUE, "assets", << >>, SerializeAssets(slots))
       /\ package' # package =>
             /\ save_pc = "Writing" /\ save_pc' = "Finalized"
             /\ Len(tar) = 2
             /\ package'.exists
             /\ package'.entries = [i \in 1 .. 2 |->
                                       Entry(tar[i].header.path, tar[i].data)]
       ]_vars

C24_Witness ==
    /\ save_pc = "Finalized"
    /\ last.op = "save"
    /\ package.exists
    /\ Len(package.entries) = 2
    /\ Len(package.entries[1].payload.world) = 1
    /\ Len(package.entries[2].payload.assets) = 1

\* C25: the Mesh a clone or a deserialization makes is unprepared (prepared
\* false, no vertex buffer, no index buffer) and has the data of the Mesh
\* cloned or saved, whatever state that one was in; the next prepare with a
\* pipeline creates its buffers and marks it prepared.
C25_FreshMeshUnprepared ==
    [][LET n == Len(meshes') IN
       /\ mesh_last'.op = "clone" =>
             meshes'[n] = MeshOf(meshes[mesh_last'.i].data, FALSE, "None", "None")
       /\ mesh_last'.op = "deserialize" =>
             meshes'[n] = MeshOf(mesh_doc.data, FALSE, "None", "None")
       /\ (/\ mesh_last.op \in {"clone", "deserialize"}
           /\ mesh_last'.op = "prepare"
           /\ mesh_last'.i = Len(meshes)
           /\ mesh_last'.res = "Ok") =>
             meshes'[n] = MeshOf(meshes[n].data, TRUE, "Some", "Some")]_vars

C25_Witness ==
    /\ mesh_last.op = "clone"
    /\ meshes[mesh_last.i].prepared
    /\ meshes[mesh_last.i].vertex_buffer = "Some"
    /\ Len(meshes) = 2
    /\ ~meshes[2].prepared

\* C26, as stated: a remove::<T>(h) of a live handle whose object is not a
\* T returns None and leaves the store as it was: h stays live with its
\* value.
C26_WrongTypeRemoveKeeps ==
    [][\A h \in Handles :
        (/\ last'.op = "remove" /\ last'.h = h
         /\ ContainsKey(h)
         /\ CellOf(h).ty # last'.ty)
        => /\ last'.res = None
           /\ slots' = slots
           /\ free_head' = free_head
           /\ ContainsKeyAfter(h)]_vars

\* C27, as stated: a save whose serialization step fails returns the error
\* and neither creates nor truncates the file at the path: the file is as it
\* was before the call.
C27_FailedSaveKeepsFile ==
    [][(/\ last'.op \in {"serializer.save", "save"}
        /\ last'.res.kind # "Ok")
       => file' = file /\ package' = package]_vars

\* C28, as stated: every execution of a schedule clears every registered
\* event handler: after it no handler holds an event, so a read returns an
\* event only if it was sent after the last execution.
C28_ClearedEveryRun ==
    [][eng_last'.op = "execute" =>
          \A E \in EventTypes : storage'[E].events = None]_vars

\* the systems an extension type adds are in the schedules
Applied(X) ==
    \E i \in 1 .. Len(schedules["render"]) :
        schedules["render"][i] = (IF X = "BaseRenderExtension"
                                  THEN "clear_screen" ELSE "render_material")

\* C29, as stated: an add_extension of an extension type that was already
\* applied panics and does not apply the extension again.
C29_ExtensionOnce ==
    [][\A X \in ExtensionTypes :
        (/\ eng_last'.op = "add_extension" /\ eng_last'.ty = X
         /\ Applied(X))
        => /\ eng_last'.res = Panic
           /\ schedules' = schedules]_vars

\* C30: a push_handler for an event type that already has a handler leaves
\* that handler, with the event it holds, as it is and logs an error; a
\* push for a type without one registers an empty handler; no push touches
\* the handler of another type, so there is one handler per type.
C30_PushKeepsHandler ==
    [][\A E \in EventTypes :
        (/\ eng_last'.op \in {"push_handler", "run"}
         /\ E = (IF eng_last'.op = "run" THEN "AppExit" ELSE eng_last'.ty))
        => /\ storage[E].present =>
                 /\ storage'[E] = storage[E]
                 /\ eng_last'.res = Logged
           /\ ~storage[E].present =>
                 /\ storage'[E] = HandlerOf(None)
                 /\ eng_last'.res = Unit
           /\ \A F \in EventTypes \ {E} : storage'[F] = storage[F]]_vars

C30_Witness ==
    /\ eng_last.op = "push_handler"
    /\ eng_last.ty = "WindowEvent"
    /\ eng_last.res = Logged
    /\ storage["WindowEvent"] = HandlerOf(Some(1))

\* C31: a handler holds one event at most: a send puts its event in the
\* place of whatever the handler held; a read returns what the handler
\* holds and leaves it there, so a read after a send returns the event sent,
\* a read after a read returns the same again, and a read of a handler
\* just registered or just cleared returns None.
C31_OneEvent ==
    [][\A E \in EventTypes :
        /\ (eng_last'.op = "send" /\ eng_last'.ty = E /\ storage[E].present)
              => storage'[E].events = Some(eng_last'.val)
        /\ (eng_last'.op = "read" /\ eng_last'.ty = E)
              => /\ storage' = storage
                 /\ (eng_last.op = "send" /\ eng_last.ty = E /\ eng_last.res = Unit)
                       => eng_last'.res = Some(eng_last.val)
                 /\ (eng_last.op = "read" /\ eng_last.ty = E)
                       => eng_last'.res = eng_last.res
                 /\ (eng_last.op = "clear" /\ eng_last.ty = E)
                       => eng_last'.res = None
                 /\ (eng_last.op = "push_handler" /\ eng_last.ty = E
                        /\ eng_last.res = Unit)
                       => eng_last'.res = None]_vars

C31_Witness ==
    /\ eng_last.op = "read"
    /\ eng_last.ty = "WindowEvent"
    /\ eng_last.res = Some(1)
    /\ storage["WindowEvent"].events = Some(1)

\* C32, as stated: a load of a file whose world was saved with a component
\* id the loader's allow-list lacks skips the column of that component and
\* succeeds: every entity is back under its id with the value of its
\* allow-listed component as saved.
C32_UnknownColumnSkipped ==
    [][(/\ last.op = "save_wider"
        /\ last'.op = "load") =>
          /\ last'.res.kind = "Ok"
          /\ world' = world]_vars

\* C33: a call of run executes the setup schedule once and calls the
\* runner with Setup once, before the loop is entered; the update and the
\* render schedule are executed, and Update and Render are emitted, only by
\* handlers of the loop, which run after that and neither execute the setup
\* schedule nor emit Setup again.
C33_SetupOnceFirst ==
    [][/\ eng_last'.op = "run" =>
             /\ ~running
             /\ executed' = <<"setup">>
             /\ emitted' = <<"Setup">>
       /\ eng_last'.op \in {"next_frame", "window_event"} =>
             /\ running
             /\ \A i \in 1 .. Len(executed') : executed'[i] # "setup"
             /\ \A i \in 1 .. Len(emitted') : emitted'[i] # "Setup"
       /\ eng_last'.op \notin {"run", "next_frame", "window_event"} =>
             UNCHANGED <<executed, emitted>>]_vars

C33_Witness ==
    /\ eng_last.op = "next_frame"
    /\ executed = <<"update", "update", "render">>
    /\ context.event_loop = "NotPresent"
    /\ running

\* C34: in one next_frame call every Update is emitted before the one
\* Render; afterwards accumulated_time is below fixed_time_step; no Render
\* is emitted while the window is occluded; and with exit_next_iteration
\* set nothing is emitted and the context is left as it is.
C34_FrameOrder ==
    [][eng_last'.op = "next_frame" =>
          LET n == Len(emitted')
              renders == {i \in 1 .. n : emitted'[i] = "Render"} IN
          /\ \A i \in 1 .. n : emitted'[i] \in {"Update", "Render"}
          /\ renders = (IF context.window_occluded THEN {} ELSE {n})
          /\ context'.accumulated_time < FixedTimeStep
          /\ \A elapsed \in 0 .. MaxElapsed :
                LET c == [context EXCEPT !.exit_next_iteration = TRUE] IN
                NextFrame(c, elapsed) = [context |-> c, events |-> << >>]]_vars

C34_Witness ==
    /\ eng_last.op = "next_frame"
    /\ eng_last.val = MaxElapsed
    /\ emitted = <<"Update", "Update", "Update">>
    /\ context.window_occluded
    /\ context.accumulated_time = 0

\* the commands a step handed to Renderer::execute, in call order
C35_Issued == SubSeq(issued', Len(issued) + 1, Len(issued'))

\* C35: a DrawModelCommand on a model whose mesh is not prepared returns
\* Err(ModelNotPrepared) and issues no draw call; a PrepareModelCommand that
\* succeeds on an unprepared mesh leaves it prepared, and on a prepared mesh
\* it changes nothing; render_material hands each model's prepare command to
\* the renderer right before its draw command, every draw command it issues
\* reaches its draw call, and it never returns ModelNotPrepared
C35_PrepareBeforeDraw ==
    [][/\ ( /\ mesh_last'.op = "execute_draw"
            /\ mesh_last'.i > 0
            /\ ~meshes[mesh_last'.i].prepared )
          => /\ mesh_last'.res = "ModelNotPrepared"
             /\ C35_Issued = <<"DrawModelCommand">>
             /\ meshes' = meshes
       /\ ( /\ mesh_last'.op = "execute_prepare"
            /\ mesh_last'.i > 0 )
          => /\ meshes[mesh_last'.i].prepared
                => (meshes' = meshes /\ mesh_last'.res = "Ok")
             /\ mesh_last'.res = "Ok" => meshes'[mesh_last'.i].prepared
             /\ \A j \in 1 .. Len(meshes) :
                   j # mesh_last'.i => meshes'[j] = meshes[j]
       /\ mesh_last'.op = "render_material"
          => /\ mesh_last'.res # "ModelNotPrepared"
             /\ \A k \in 1 .. Len(C35_Issued) :
                   C35_Issued[k] = "DrawModelCommand"
                   => /\ k > 1
                      /\ C35_Issued[k - 1] = "PrepareModelCommand"
                      /\ k < Len(C35_Issued)
                      /\ C35_Issued[k + 1] = "DrawTrianglesCommand"
             /\ ( /\ mesh_last'.i > 0
                  /\ mesh_last'.res \in {"Ok", "MultipleActiveCameras"} )
                => \A j \in 1 .. Len(meshes) : meshes'[j].prepared
     ]_vars

\* render_material has prepared and drawn two models whose meshes no command
\* had prepared before
C35_Witness ==
    /\ mesh_last.op = "render_material"
    /\ mesh_last.res = "Ok"
    /\ Len(meshes) = 2
    /\ issued = <<"RenderCameraCommand",
                  "PrepareModelCommand", "DrawModelCommand",
                  "DrawTrianglesCommand",
                  "PrepareModelCommand", "DrawModelCommand",
                  "DrawTrianglesCommand">>
    /\ \A j \in 1 .. 2 : meshes[j].prepared

\* C36: the history never holds more than max_capacity names, and they are
\* the names of the most recently executed commands in execution order (the
\* oldest are the ones evicted); a command is in the history before the
\* commands it issues itself
C36_HistoryIsRecentSuffix ==
    /\ Len(commands_history) <= HistoryCapacity
    /\ Len(commands_history) <= Len(issued)
    /\ Len(issued) <= HistoryCapacity => commands_history = issued
    /\ Len(issued) > HistoryCapacity
       => commands_history = SubSeq(issued, Len(issued) - HistoryCapacity + 1,
                                    Len(issued))
    /\ \A k \in 2 .. Len(commands_history) :
          /\ commands_history[k] = "DrawTrianglesCommand"
             => commands_history[k - 1] = "DrawModelCommand"
          /\ commands_history[k] = "EnableCommand"
             => commands_history[k - 1] \in {"ClearCommand", "EnableCommand"}

\* the history is full, has evicted names, and ends with a command issued
\* by the command before it
C36_Witness ==
    /\ Len(issued) > HistoryCapacity
    /\ Len(commands_history) = HistoryCapacity
    /\ commands_history[HistoryCapacity] = "DrawTrianglesCommand"
    /\ commands_history[HistoryCapacity - 1] = "DrawModelCommand"

\* C37: after spawn_scene the world holds one entity per scene entity, in
\* scene order, each carrying every component of its scene entity and no
\* other, and no entity that was in the world before the call
C37_SceneReplacesWorld ==
    [][scene_last'.op = "spawn_scene"
       => /\ Len(ecs') = Len(scene_last'.entities)
          /\ \A k \in 1 .. Len(ecs') :
                /\ ecs'[k].born > spawned
                /\ \A j \in 1 .. Len(scene_last'.entities[k]) :
                      LET component == scene_last'.entities[k][j]
                      IN  ecs'[k].components[component.ty]
                              = [some |-> TRUE, val |-> component.val]
                /\ \A ty \in SceneTypes :
                      ecs'[k].components[ty].some
                      => \E j \in 1 .. Len(scene_last'.entities[k]) :
                            scene_last'.entities[k][j].ty = ty
     ]_vars

====
